---- MODULE Spec2Model ----
(***************************************************************************)
(* The decision layer of the interview scoring service: the frozen feature *)
(* contract (app/decision/feature_contract.py), the scoring engine with    *)
(* its module-level model registry (app/decision/scoring.py), the HTTP     *)
(* routes that call it (app/api/routes.py) and the artifact writer of the  *)
(* training pipeline (training/train_model.py, save_artifacts).            *)
(*                                                                         *)
(* Numbers.  A Python float that lies on the 0.01 grid is written as the   *)
(* integer h with value h/100 ("hundredths").  Every bound, default and    *)
(* threshold of the source lies on that grid.  An element of the feature   *)
(* vector is a float32: the record [m, e] with value m * 2^(e-23), which   *)
(* is what the dtype=np.float32 cast of build_feature_vector produces.     *)
(***************************************************************************)
EXTENDS Integers, Sequences, FiniteSets, TLC

-----------------------------------------------------------------------------
(* feature_contract.py: the frozen feature order                           *)

TEXT_FEATURES ==
    << "semantic_relevance_mean", "semantic_relevance_std", "topic_drift_ratio",
       "avg_sentence_length", "sentence_length_std", "avg_response_length_sec",
       "response_length_consistency", "assertive_phrase_ratio", "modal_verb_ratio",
       "hedge_ratio", "filler_word_ratio", "vague_phrase_ratio",
       "information_density", "specificity_score", "redundancy_score",
       "answer_depth_score", "llm_confidence_mean", "llm_clarity_mean",
       "llm_depth_mean", "llm_empathy_mean", "llm_evasion_mean",
       "empathy_phrase_ratio", "reflective_response_ratio", "question_back_ratio",
       "avg_sentiment", "sentiment_variance", "negative_spike_count" >>

AUDIO_FEATURES ==
    << "speech_rate_wpm", "speech_rate_variance", "mean_pause_duration",
       "pause_frequency", "silence_ratio", "pitch_mean", "pitch_variance",
       "energy_mean", "energy_variance", "monotony_score", "audio_confidence_prob",
       "audio_nervous_prob", "audio_calm_prob", "emotion_consistency" >>

VIDEO_FEATURES ==
    << "face_presence_ratio", "eye_contact_ratio", "head_motion_variance",
       "facial_engagement_score", "smile_ratio", "gaze_variance", "video_available" >>

ALL_FEATURES == TEXT_FEATURES \o AUDIO_FEATURES \o VIDEO_FEATURES

TARGET_LABELS == << "confidence", "clarity", "empathy", "communication" >>

N_FEATURES == Len(ALL_FEATURES)

Range(s) == { s[i] : i \in 1..Len(s) }

FeatureNames == Range(ALL_FEATURES)

(* FEATURE_INDEX: the position of a name in ALL_FEATURES.  Python counts   *)
(* positions from 0, a TLA+ sequence from 1: this is the Python index + 1. *)
FEATURE_INDEX == [ f \in FeatureNames |-> CHOOSE i \in 1..N_FEATURES : ALL_FEATURES[i] = f ]

-----------------------------------------------------------------------------
(* feature_contract.py: FEATURE_METADATA, in hundredths.  "optional" is    *)
(* the key only the video entries carry (meta.get("optional", False)).     *)

Meta(lo, hi, dflt, modality, optional) ==
    [ min |-> lo, max |-> hi, default |-> dflt, modality |-> modality, optional |-> optional ]

FEATURE_METADATA ==
    "semantic_relevance_mean" :> Meta(0, 100, 70, "text", FALSE) @@
    "semantic_relevance_std" :> Meta(0, 100, 20, "text", FALSE) @@
    "topic_drift_ratio" :> Meta(0, 100, 15, "text", FALSE) @@
    "avg_sentence_length" :> Meta(100, 5000, 1500, "text", FALSE) @@
    "sentence_length_std" :> Meta(0, 2000, 500, "text", FALSE) @@
    "avg_response_length_sec" :> Meta(100, 12000, 3000, "text", FALSE) @@
    "response_length_consistency" :> Meta(0, 100, 50, "text", FALSE) @@
    "assertive_phrase_ratio" :> Meta(0, 100, 10, "text", FALSE) @@
    "modal_verb_ratio" :> Meta(0, 100, 10, "text", FALSE) @@
    "hedge_ratio" :> Meta(0, 100, 10, "text", FALSE) @@
    "filler_word_ratio" :> Meta(0, 100, 10, "text", FALSE) @@
    "vague_phrase_ratio" :> Meta(0, 100, 15, "text", FALSE) @@
    "information_density" :> Meta(0, 100, 50, "text", FALSE) @@
    "specificity_score" :> Meta(0, 100, 30, "text", FALSE) @@
    "redundancy_score" :> Meta(0, 100, 30, "text", FALSE) @@
    "answer_depth_score" :> Meta(0, 100, 40, "text", FALSE) @@
    "llm_confidence_mean" :> Meta(0, 100, 50, "text", FALSE) @@
    "llm_clarity_mean" :> Meta(0, 100, 50, "text", FALSE) @@
    "llm_depth_mean" :> Meta(0, 100, 50, "text", FALSE) @@
    "llm_empathy_mean" :> Meta(0, 100, 50, "text", FALSE) @@
    "llm_evasion_mean" :> Meta(0, 100, 50, "text", FALSE) @@
    "empathy_phrase_ratio" :> Meta(0, 100, 5, "text", FALSE) @@
    "reflective_response_ratio" :> Meta(0, 100, 10, "text", FALSE) @@
    "question_back_ratio" :> Meta(0, 100, 10, "text", FALSE) @@
    "avg_sentiment" :> Meta(-100, 100, 0, "text", FALSE) @@
    "sentiment_variance" :> Meta(0, 100, 20, "text", FALSE) @@
    "negative_spike_count" :> Meta(0, 2000, 100, "text", FALSE) @@
    "speech_rate_wpm" :> Meta(6000, 25000, 14000, "audio", FALSE) @@
    "speech_rate_variance" :> Meta(0, 5000, 1000, "audio", FALSE) @@
    "mean_pause_duration" :> Meta(10, 500, 80, "audio", FALSE) @@
    "pause_frequency" :> Meta(0, 3000, 800, "audio", FALSE) @@
    "silence_ratio" :> Meta(0, 100, 20, "audio", FALSE) @@
    "pitch_mean" :> Meta(5000, 40000, 15000, "audio", FALSE) @@
    "pitch_variance" :> Meta(0, 10000, 2500, "audio", FALSE) @@
    "energy_mean" :> Meta(0, 100, 50, "audio", FALSE) @@
    "energy_variance" :> Meta(0, 50, 15, "audio", FALSE) @@
    "monotony_score" :> Meta(0, 100, 30, "audio", FALSE) @@
    "audio_confidence_prob" :> Meta(0, 100, 50, "audio", FALSE) @@
    "audio_nervous_prob" :> Meta(0, 100, 30, "audio", FALSE) @@
    "audio_calm_prob" :> Meta(0, 100, 50, "audio", FALSE) @@
    "emotion_consistency" :> Meta(0, 100, 60, "audio", FALSE) @@
    "face_presence_ratio" :> Meta(0, 100, 50, "video", TRUE) @@
    "eye_contact_ratio" :> Meta(0, 100, 50, "video", TRUE) @@
    "head_motion_variance" :> Meta(0, 100, 30, "video", TRUE) @@
    "facial_engagement_score" :> Meta(0, 100, 40, "video", TRUE) @@
    "smile_ratio" :> Meta(0, 100, 30, "video", TRUE) @@
    "gaze_variance" :> Meta(0, 100, 30, "video", TRUE) @@
    "video_available" :> Meta(0, 100, 0, "video", TRUE)

-----------------------------------------------------------------------------
(* Python values of a raw feature mapping.  A mapping is a function from   *)
(* its keys (strings) to values; a key that is absent is not in DOMAIN.    *)
(*   none          None                                                    *)
(*   float, v      a finite float, v hundredths                            *)
(*   int, v        an int that fits a float, value v                       *)
(*   bigint        an int too large for a float (10**400)                  *)
(*   bool, v       True (v = 1) or False (v = 0)                           *)
(*   nan/inf/ninf  float('nan'), float('inf'), float('-inf')               *)
(*   str           a string float() cannot parse ("not_a_number")          *)
(*   numstr, v     a string float() parses to v hundredths ("0.45")        *)
(*   list          an object without __float__ ([1, 2], a dict)            *)

PyVal(t, v) == [ t |-> t, v |-> v ]

PyNone == PyVal("none", 0)

(* A Python float: finite (h hundredths), NaN, +Infinity or -Infinity.     *)
Fin(h) == [ k |-> "fin", h |-> h ]

Special(k) == [ k |-> k, h |-> 0 ]

(* float(value): the float it returns, or the exception it raises.         *)
PyFloatOk(f) == [ exc |-> "none", f |-> f ]

PyFloatRaises(exc) == [ exc |-> exc, f |-> Special("nan") ]

float(value) ==
    CASE value.t = "float"  -> PyFloatOk(Fin(value.v))
      [] value.t = "int"    -> PyFloatOk(Fin(100 * value.v))
      [] value.t = "bool"   -> PyFloatOk(Fin(100 * value.v))
      [] value.t = "numstr" -> PyFloatOk(Fin(value.v))
      [] value.t = "nan"    -> PyFloatOk(Special("nan"))
      [] value.t = "inf"    -> PyFloatOk(Special("inf"))
      [] value.t = "ninf"   -> PyFloatOk(Special("ninf"))
      [] value.t = "str"    -> PyFloatRaises("ValueError")
      [] value.t = "bigint" -> PyFloatRaises("OverflowError")
      [] value.t = "none"   -> PyFloatRaises("TypeError")
      [] value.t = "list"   -> PyFloatRaises("TypeError")

(* features.get(name): the value, None when the key is absent.             *)
Get(features, name) == IF name \in DOMAIN features THEN features[name] ELSE PyNone

(* "if value is not None: float_val = float(value)": nothing is converted  *)
(* when the value is None.                                                 *)
TryFloat(value) == IF value.t = "none" THEN PyFloatRaises("none") ELSE float(value)

isnan(f) == f.k = "nan"

isinf(f) == f.k \in { "inf", "ninf" }

(* A faulty clip that forgets the upper bound.                             *)
clip_without_max(h, lo, hi) == IF h < lo THEN lo ELSE h

(* np.clip(value, lo, hi) on finite floats.                                *)
clip(h, lo, hi) == IF h < lo THEN lo ELSE IF h > hi THEN hi ELSE h

(* np.clip(value, lo, hi) on any float: NaN stays NaN (every comparison    *)
(* with it is false), +Infinity becomes hi and -Infinity lo.               *)
np_clip(f, lo, hi) ==
    CASE f.k = "nan"  -> Special("nan")
      [] f.k = "inf"  -> Fin(hi)
      [] f.k = "ninf" -> Fin(lo)
      [] f.k = "fin"  -> Fin(clip(f.h, lo, hi))

-----------------------------------------------------------------------------
(* np.float32: a finite float32 is m * 2^(e-23) with |m| < 2^24 (and       *)
(* |m| >= 2^23 unless it is 0).  F32(h) casts the float h/100, rounding to *)
(* nearest, ties to even, for 0.01 <= |h/100| < 2^17.                      *)

Abs(x) == IF x < 0 THEN 0 - x ELSE x

Sign(x) == IF x < 0 THEN 0 - 1 ELSE IF x > 0 THEN 1 ELSE 0

F32Exponent(a) ==
    CHOOSE e \in (0 - 7)..16 :
        IF e >= 0 THEN 100 * 2^e <= a /\ a < 100 * 2^(e + 1)
                  ELSE 100 <= a * 2^(0 - e) /\ a * 2^(0 - e) < 200

F32(h) ==
    IF h = 0 THEN [ k |-> "fin", m |-> 0, e |-> 0 ]
    ELSE LET a      == Abs(h)
             e      == F32Exponent(a)
             scaled == a * 2^(23 - e)
             q      == scaled \div 100
             r      == scaled % 100
             m      == IF r > 50 \/ (r = 50 /\ q % 2 = 1) THEN q + 1 ELSE q
         IN  IF m = 2^24 THEN [ k |-> "fin", m |-> Sign(h) * 2^23, e |-> e + 1 ]
                         ELSE [ k |-> "fin", m |-> Sign(h) * m, e |-> e ]

(* np.float32 of any float: NaN and the infinities stay what they are, a   *)
(* finite float is cast by F32.                                            *)
float32(f) == IF f.k = "fin" THEN F32(f.h) ELSE [ k |-> f.k, m |-> 0, e |-> 0 ]

-----------------------------------------------------------------------------
(* feature_contract.py: preprocessing functions                            *)

(* A faulty presence test that counts a video key whose value is None.     *)
get_video_available_by_key(features) ==
    IF \E i \in 1..Len(VIDEO_FEATURES) : VIDEO_FEATURES[i] \in DOMAIN features
    THEN 1 ELSE 0

(* get_video_available: 1 if any video feature is a key with a value that  *)
(* is not None, else 0.                                                    *)
get_video_available(features) ==
    IF \E i \in 1..Len(VIDEO_FEATURES) :
          /\ VIDEO_FEATURES[i] \in DOMAIN features
          /\ features[VIDEO_FEATURES[i]].t # "none"
    THEN 1 ELSE 0

(* A faulty imputation that gives a video feature its default even when    *)
(* no video was captured.                                                  *)
Imputed_always_default(meta, value, conv, video_available) ==
    LET is_valid == /\ value.t # "none"
                    /\ conv.exc = "none"
                    /\ ~(isnan(conv.f) \/ isinf(conv.f))
        escapes  == IF value.t # "none" /\ conv.exc \notin { "none", "TypeError", "ValueError" }
                    THEN conv.exc ELSE "none"
    IN  [ exc |-> escapes,
          f   |-> IF is_valid THEN np_clip(conv.f, meta.min, meta.max)
                  ELSE Fin(meta.default) ]

(* A faulty imputation whose validity test forgets np.isnan.               *)
Imputed_without_isnan(meta, value, conv, video_available) ==
    LET is_valid == /\ value.t # "none"
                    /\ conv.exc = "none"
                    /\ ~isinf(conv.f)
        escapes  == IF value.t # "none" /\ conv.exc \notin { "none", "TypeError", "ValueError" }
                    THEN conv.exc ELSE "none"
    IN  [ exc |-> escapes,
          f   |-> IF is_valid THEN np_clip(conv.f, meta.min, meta.max)
                  ELSE IF meta.optional
                       THEN (IF video_available THEN Fin(meta.default) ELSE Fin(0))
                       ELSE Fin(meta.default) ]

(* The body of the loop of impute_missing_features once float(value) has   *)
(* been tried (conv): the exception that escapes it ("none" when none      *)
(* does) and the float stored in imputed.                                  *)
Imputed(meta, value, conv, video_available) ==
    LET is_valid == /\ value.t # "none"
                    /\ conv.exc = "none"
                    /\ ~(isnan(conv.f) \/ isinf(conv.f))
        escapes  == IF value.t # "none" /\ conv.exc \notin { "none", "TypeError", "ValueError" }
                    THEN conv.exc ELSE "none"
    IN  [ exc |-> escapes,
          f   |-> IF is_valid THEN np_clip(conv.f, meta.min, meta.max)
                  ELSE IF meta.optional
                       THEN (IF video_available THEN Fin(meta.default) ELSE Fin(0))
                       ELSE Fin(meta.default) ]

(* One turn of the loop of impute_missing_features.                        *)
ImputeOne(features, feature_name, video_available) ==
    Imputed(FEATURE_METADATA[feature_name], Get(features, feature_name),
            TryFloat(Get(features, feature_name)), video_available)

(* impute_missing_features: the dict imputed, or the first exception that  *)
(* escapes the loop over ALL_FEATURES.                                     *)
impute_missing_features(features, video_available) ==
    LET one(i)  == ImputeOne(features, ALL_FEATURES[i], video_available)
        raising == { i \in 1..N_FEATURES : one(i).exc # "none" }
    IN  IF raising # {}
        THEN [ exc |-> one(CHOOSE i \in raising : \A j \in raising : i <= j).exc,
               imputed |-> << >> ]
        ELSE [ exc |-> "none",
               imputed |-> [ f \in FeatureNames |-> one(FEATURE_INDEX[f]).f ] ]

(* A faulty build that fills position i from the feature after it.         *)
BuiltVector_shifted(video_available, imp) ==
    IF imp.exc # "none"
    THEN [ exc |-> imp.exc, vector |-> << >>, video_available |-> video_available ]
    ELSE [ exc |-> "none",
           vector |-> [ i \in 1..N_FEATURES |->
                          float32(imp.imputed[ALL_FEATURES[(i % N_FEATURES) + 1]]) ],
           video_available |-> video_available ]

(* np.array([imputed[f] for f in ALL_FEATURES], dtype=np.float32) and the   *)
(* flag, or the exception of impute_missing_features.                      *)
BuiltVector(video_available, imp) ==
    IF imp.exc # "none"
    THEN [ exc |-> imp.exc, vector |-> << >>, video_available |-> video_available ]
    ELSE [ exc |-> "none",
           vector |-> [ i \in 1..N_FEATURES |-> float32(imp.imputed[ALL_FEATURES[i]]) ],
           video_available |-> video_available ]

(* build_feature_vector: (vector, video_available), or the exception of    *)
(* impute_missing_features.  The vector is a float32 array in the order of *)
(* ALL_FEATURES.                                                           *)
build_feature_vector(features) ==
    BuiltVector(get_video_available(features),
                impute_missing_features(features, get_video_available(features) = 1))

(* validate_feature_vector: shape (N,), no NaN, no Infinity.               *)
validate_feature_vector(vector) ==
    /\ Len(vector) = N_FEATURES
    /\ \A i \in 1..Len(vector) : vector[i].k # "nan"
    /\ \A i \in 1..Len(vector) : vector[i].k \notin { "inf", "ninf" }

-----------------------------------------------------------------------------
(* Python float arithmetic of the overall score (scoring.py, score_session) *)
(*                                                                         *)
(* The weighted sum is evaluated in IEEE doubles, left to right, and the   *)
(* literals 0.30 and 0.20 are not exact, so a sum whose exact value is     *)
(* k + 0.5 is usually not a tie for np.round.  A double near the 0.05 grid *)
(* is the pair [n, d] with value n/20 + d*U, U = 2^-56 / 5: n/20 is the    *)
(* exact decimal value and d the accumulated rounding error.  In units of  *)
(* U the doubles with exponent e are the multiples of 5 * 2^(e+4).         *)

Dbl(n, d) == [ n |-> n, d |-> d ]

(* The exponent e of n/20 + d*U: 2^e <= value < 2^(e+1), for n >= 1.       *)
DblExponent(n, d) ==
    LET e == CHOOSE x \in (0 - 5)..7 :
                 IF x >= 0 THEN 20 * 2^x <= n /\ n < 20 * 2^(x + 1)
                           ELSE 20 <= n * 2^(0 - x) /\ n * 2^(0 - x) < 40
        power == IF e >= 0 THEN 20 * 2^e = n ELSE n * 2^(0 - e) = 20
    IN  IF power /\ d < 0 THEN e - 1 ELSE e

(* 2^k mod 5 *)
Pow2Mod5(k) == << 1, 2, 4, 3 >>[(k % 4) + 1]

(* Round n/20 + d*U to the nearest double, ties to the even mantissa.      *)
DblRound(n, d) ==
    IF n = 0 THEN Dbl(0, 0)
    ELSE LET e     == DblExponent(n, d)
             g     == 5 * 2^(e + 4)
             r5    == (n * Pow2Mod5(50 - e)) % 5
             t     == 2^(e + 4) * r5 + d
             rem   == t % g
             carry == (t - rem) \div g
             up    == \/ 2 * rem > g
                      \/ 2 * rem = g /\ (r5 + carry) % 2 = 1
         IN  IF up THEN Dbl(n, d - rem + g) ELSE Dbl(n, d - rem)

(* 0.25 * s, 0.30 * s and 0.20 * s for an int s in 0..100.  0.25 * s is    *)
(* exact; the double 0.30 is 0.3 - 2^-54 / 5 and the double 0.20 is        *)
(* 0.2 + 2^-54 / 5.                                                        *)
DblMul025(s) == Dbl(5 * s, 0)

DblMul030(s) == DblRound(6 * s, 0 - 4 * s)

DblMul020(s) == DblRound(4 * s, 4 * s)

DblAdd(x, y) == DblRound(x.n + y.n, x.d + y.d)

(* int(np.round(x)) of such a double: round half to even.                  *)
DblRint(x) ==
    LET k == x.n \div 20
        r == x.n % 20
    IN  IF r < 10 THEN k
        ELSE IF r > 10 THEN k + 1
        ELSE IF x.d > 0 THEN k + 1
        ELSE IF x.d < 0 THEN k
        ELSE IF k % 2 = 0 THEN k ELSE k + 1

(* A faulty overall score that averages the four skills with equal weight. *)
Overall_unweighted(scores) ==
    DblRint(DblAdd(DblAdd(DblAdd(DblMul025(scores["confidence"]),
                                 DblMul025(scores["clarity"])),
                          DblMul025(scores["empathy"])),
                   DblMul025(scores["communication"])))

(* overall = int(np.round(0.25*confidence + 0.30*clarity + 0.20*empathy +  *)
(* 0.25*communication))                                                    *)
Overall(scores) ==
    DblRint(DblAdd(DblAdd(DblAdd(DblMul025(scores["confidence"]),
                                 DblMul030(scores["clarity"])),
                          DblMul020(scores["empathy"])),
                   DblMul025(scores["communication"])))

(* np.round(pred) for a prediction of p hundredths of a point: round half  *)
(* to even.                                                                *)
RoundPrediction(p) ==
    LET k == p \div 100
        r == p % 100
    IN  IF r < 50 THEN k
        ELSE IF r > 50 THEN k + 1
        ELSE IF k % 2 = 0 THEN k ELSE k + 1

(* A faulty conversion that clamps without rounding: int() truncates.       *)
SkillScore_truncated(p) == clip(IF p >= 0 THEN p \div 100 ELSE 0, 0, 100)

(* int(np.clip(np.round(pred), 0, 100))                                    *)
SkillScore(p) == clip(RoundPrediction(p), 0, 100)

-----------------------------------------------------------------------------
(* scoring.py: the feedback tables and functions                           *)

Rule(feat, direction, threshold) ==
    [ feat |-> feat, direction |-> direction, threshold |-> threshold ]

(* bad_thresholds, in the iteration order of the dict; thresholds in       *)
(* hundredths.                                                             *)
bad_thresholds ==
    << Rule("silence_ratio", "high", 30),
       Rule("topic_drift_ratio", "high", 30),
       Rule("hedge_ratio", "high", 30),
       Rule("filler_word_ratio", "high", 30),
       Rule("audio_nervous_prob", "high", 50),
       Rule("monotony_score", "high", 50),
       Rule("gaze_variance", "high", 50),
       Rule("emotion_mismatch_score", "high", 40),
       Rule("semantic_relevance_mean", "low", 50),
       Rule("assertive_phrase_ratio", "low", 10),
       Rule("empathy_phrase_ratio", "low", 5),
       Rule("eye_contact_ratio", "low", 40),
       Rule("audio_confidence_prob", "low", 40),
       Rule("emotion_consistency", "low", 50) >>

feature_suggestions ==
    "silence_ratio" :> "Reduce pauses and hesitation in your responses" @@
    "audio_nervous_prob" :> "Practice speaking with a more calm and steady tone" @@
    "hedge_ratio" :> "Use more definitive language instead of hedging phrases like 'maybe' or 'I think'" @@
    "filler_word_ratio" :> "Minimize filler words like 'um', 'uh', 'like', 'you know'" @@
    "assertive_phrase_ratio" :> "Use more assertive language such as 'I did', 'I achieved', 'I led'" @@
    "monotony_score" :> "Add more variation to your voice tone and speaking pace" @@
    "topic_drift_ratio" :> "Stay more focused on the question being asked" @@
    "semantic_relevance_mean" :> "Keep your answers more relevant and on-topic" @@
    "empathy_phrase_ratio" :> "Use more empathetic language like 'I understand', 'I see your point'" @@
    "reflective_response_ratio" :> "Show understanding by reflecting back key points" @@
    "eye_contact_ratio" :> "Maintain more consistent eye contact with the camera" @@
    "audio_confidence_prob" :> "Project more confidence through your voice" @@
    "emotion_consistency" :> "Maintain a more consistent emotional tone throughout"

(* A faulty test that also flags a value equal to the threshold.           *)
Outcome_non_strict(rule, value, conv) ==
    LET skip == \/ value.t = "none"
                \/ conv.exc # "none"
                \/ isnan(conv.f) \/ isinf(conv.f)
    IN  [ exc |-> IF value.t # "none" /\ conv.exc \notin { "none", "TypeError", "ValueError" }
                  THEN conv.exc ELSE "none",
          is_bad |-> /\ ~skip
                     /\ \/ rule.direction = "high" /\ conv.f.h >= rule.threshold
                        \/ rule.direction = "low" /\ conv.f.h <= rule.threshold ]

(* A faulty test that reads a value it cannot use as 0.0 instead of        *)
(* skipping the rule.                                                      *)
Outcome_unusable_as_zero(rule, value, conv) ==
    LET skip == \/ value.t = "none"
                \/ conv.exc # "none"
                \/ isnan(conv.f) \/ isinf(conv.f)
        h    == IF skip THEN 0 ELSE conv.f.h
    IN  [ exc |-> IF value.t # "none" /\ conv.exc \notin { "none", "TypeError", "ValueError" }
                  THEN conv.exc ELSE "none",
          is_bad |-> \/ rule.direction = "high" /\ h > rule.threshold
                     \/ rule.direction = "low" /\ h < rule.threshold ]

(* One turn of the loop of _identify_low_features: the exception that      *)
(* escapes it and whether the rule's feature has a bad value.              *)
Outcome(rule, value, conv) ==
    LET skip == \/ value.t = "none"
                \/ conv.exc # "none"
                \/ isnan(conv.f) \/ isinf(conv.f)
    IN  [ exc |-> IF value.t # "none" /\ conv.exc \notin { "none", "TypeError", "ValueError" }
                  THEN conv.exc ELSE "none",
          is_bad |-> /\ ~skip
                     /\ \/ rule.direction = "high" /\ conv.f.h > rule.threshold
                        \/ rule.direction = "low" /\ conv.f.h < rule.threshold ]

RuleOutcome(features, rule) ==
    Outcome(rule, Get(features, rule.feat), TryFloat(Get(features, rule.feat)))

(* A faulty slice that keeps the whole list.                                *)
Take_all(s, k) == s

(* A faulty slice that keeps the last k elements.                          *)
Take_last(s, k) == SubSeq(s, IF Len(s) < k THEN 1 ELSE Len(s) - k + 1, Len(s))

(* The first k elements of a sequence (s[:k]).                             *)
Take(s, k) == SubSeq(s, 1, IF Len(s) < k THEN Len(s) ELSE k)

RECURSIVE LowFeatureScan(_, _, _)
LowFeatureScan(features, i, low_features) ==
    IF i > Len(bad_thresholds) THEN low_features
    ELSE LET rule == bad_thresholds[i]
         IN  LowFeatureScan(features, i + 1,
                 IF RuleOutcome(features, rule).is_bad /\ rule.feat \notin Range(low_features)
                 THEN Append(low_features, rule.feat) ELSE low_features)

(* _identify_low_features(features, scores): the list returned, or the     *)
(* exception that escapes.  The scores are not read.                       *)
identify_low_features(features, scores) ==
    LET raising == { i \in 1..Len(bad_thresholds) :
                        RuleOutcome(features, bad_thresholds[i]).exc # "none" }
    IN  IF raising # {}
        THEN [ exc |-> RuleOutcome(features,
                           bad_thresholds[CHOOSE i \in raising : \A j \in raising : i <= j]).exc,
               low_features |-> << >> ]
        ELSE [ exc |-> "none", low_features |-> Take(LowFeatureScan(features, 1, << >>), 5) ]

(* A faulty deduplication that puts each new string in front.              *)
RECURSIVE Dedup_newest_first(_, _)
Dedup_newest_first(s, unique) ==
    IF s = << >> THEN unique
    ELSE Dedup_newest_first(Tail(s), IF Head(s) \in Range(unique) THEN unique
                                     ELSE << Head(s) >> \o unique)

RECURSIVE Dedup(_, _)
Dedup(s, unique) ==
    IF s = << >> THEN unique
    ELSE Dedup(Tail(s), IF Head(s) \in Range(unique) THEN unique ELSE Append(unique, Head(s)))

(* _generate_suggestions(low_features, scores)                             *)
generate_suggestions(low_features, scores) ==
    LET known   == SelectSeq(low_features, LAMBDA f : f \in DOMAIN feature_suggestions)
        feature == [ i \in 1..Len(known) |-> feature_suggestions[known[i]] ]
        general ==
            (IF scores["confidence"] < 50
             THEN << "Focus on projecting confidence through body language and voice" >>
             ELSE << >>) \o
            (IF scores["clarity"] < 50
             THEN << "Structure your responses with clear beginnings, middles, and ends" >>
             ELSE << >>) \o
            (IF scores["empathy"] < 50
             THEN << "Show more engagement and understanding of the interviewer's perspective" >>
             ELSE << >>)
    IN  Take(Dedup(feature \o general, << >>), 5)

-----------------------------------------------------------------------------
(* The artifacts under MODELS_DIR and the trained regressors               *)
(*                                                                         *)
(* A file is absent, partial (open for writing or truncated: it exists but *)
(* pickle.load / json.load raise on it), ok, or stale (a model file left   *)
(* by a training run under an earlier version of the feature contract: a   *)
(* well-formed pickle); run is the training run that wrote it.             *)

File(st, run) == [ st |-> st, run |-> run ]

Absent == File("absent", 0)

(* os.path.join(MODELS_DIR, f"{skill}_model.pkl")                          *)
model_path ==
    "confidence" :> "confidence_model.pkl" @@
    "clarity" :> "clarity_model.pkl" @@
    "empathy" :> "empathy_model.pkl" @@
    "communication" :> "communication_model.pkl"

ModelFiles == { model_path[s] : s \in Range(TARGET_LABELS) }

SideFiles == { "training_info.json", "feature_importance.json", "feedback_mapping.json" }

Files == ModelFiles \cup SideFiles

(* The nearest multiple of 0.01 to a finite float32, in hundredths.        *)
Hundredths(x) ==
    LET p == Abs(x.m) * 100
        s == 2^(23 - x.e)
        q == p \div s
        r == p % s
    IN  Sign(x.m) * (IF r >= 2^(22 - x.e) THEN q + 1 ELSE q)

(* The sign of x - h/100 for a finite float32 x.                           *)
F32Cmp(x, h) ==
    IF Hundredths(x) # h THEN Sign(Hundredths(x) - h)
    ELSE Sign(x.m * 100 - h * 2^(23 - x.e))

(* A regressor is a boosted tree of depth 1: predict(X) is base + left if  *)
(* X[feature] < threshold, else base + right, in hundredths of a point.    *)
(* n_features_in is the number of columns it was trained on                *)
(* (train_all_models: the features of ALL_FEATURES at training time).      *)
Regressor(base, feature, threshold, left, right) ==
    [ base |-> base, feature |-> feature, threshold |-> threshold,
      left |-> left, right |-> right, n_features_in |-> N_FEATURES ]

predict(model, X) ==
    model.base + (IF F32Cmp(X[FEATURE_INDEX[model.feature]], model.threshold) < 0
                  THEN model.left ELSE model.right)

(* pickle.load of <skill>_model.pkl as written by training run `run`: the  *)
(* runs train different regressors.  Predictions below 0, above 100, with  *)
(* a fraction and exactly halfway between two integers all occur.          *)
TrainedModel(skill, run) ==
    CASE skill = "confidence" ->
             Regressor(7450 + 100 * run, "silence_ratio", 30, 0, 0 - 8137)
      [] skill = "clarity" ->
             Regressor(4837 + 1000 * run, "topic_drift_ratio", 30, 1300, 0 - 1287)
      [] skill = "empathy" ->
             Regressor(3150 + 100 * run, "empathy_phrase_ratio", 5, 0, 7263)
      [] skill = "communication" ->
             Regressor(9980 - 2000 * run, "filler_word_ratio", 30, 1570, 0 - 4430)

(* pickle.load(f) of a model file that exists and is whole: a stale file   *)
(* holds a regressor trained before the last feature of the contract was   *)
(* added.                                                                  *)
pickle_load(skill, file) ==
    IF file.st = "stale"
    THEN [ TrainedModel(skill, file.run) EXCEPT !.n_features_in = N_FEATURES - 1 ]
    ELSE TrainedModel(skill, file.run)

-----------------------------------------------------------------------------
(* scoring.py: the model registry                                          *)
(*                                                                         *)
(* reg is the record of the module globals _MODELS (a function from the    *)
(* skills loaded to regressors), _FEATURE_IMPORTANCE, _FEEDBACK_MAPPING    *)
(* (the run whose table is held, 0 for the initial {}) and _MODELS_LOADED. *)

Registry(models, importance, feedback, loaded) ==
    [ MODELS |-> models, FEATURE_IMPORTANCE |-> importance,
      FEEDBACK_MAPPING |-> feedback, MODELS_LOADED |-> loaded ]

(* A faulty loop that skips a missing model file instead of giving up.     *)
RECURSIVE LoadSkills_skip_missing(_, _, _)
LoadSkills_skip_missing(models, disk, i) ==
    IF i > Len(TARGET_LABELS) THEN [ ok |-> TRUE, models |-> models ]
    ELSE LET skill == TARGET_LABELS[i]
             file  == disk[model_path[skill]]
         IN  IF file.st \in { "absent", "partial" }
             THEN LoadSkills_skip_missing(models, disk, i + 1)
             ELSE LoadSkills_skip_missing(
                      (skill :> pickle_load(skill, file)) @@ models, disk, i + 1)

(* The loop over TARGET_LABELS of _load_models from skill i on: ok is      *)
(* FALSE on a missing file (return False) and on a file pickle.load raises *)
(* on (except Exception: return False); the skills before it stay stored.  *)
RECURSIVE LoadSkills(_, _, _)
LoadSkills(models, disk, i) ==
    IF i > Len(TARGET_LABELS) THEN [ ok |-> TRUE, models |-> models ]
    ELSE LET skill == TARGET_LABELS[i]
             file  == disk[model_path[skill]]
         IN  IF file.st \in { "absent", "partial" } THEN [ ok |-> FALSE, models |-> models ]
             ELSE LoadSkills((skill :> pickle_load(skill, file)) @@ models, disk, i + 1)

(* A faulty end of _load_models that reports ready whatever the loop over  *)
(* TARGET_LABELS found.                                                    *)
Loaded_always_ready(reg, disk, skills) ==
    [ reg |-> Registry(skills.models, reg.FEATURE_IMPORTANCE, reg.FEEDBACK_MAPPING, TRUE),
      ret |-> TRUE ]

(* _load_models(): the registry afterwards and the value returned; Loaded  *)
(* is the function from the end of the loop over TARGET_LABELS on.         *)
Loaded(reg, disk, skills) ==
    LET importance == disk["feature_importance.json"]
        feedback   == disk["feedback_mapping.json"]
        imp        == IF importance.st = "ok" THEN importance.run
                      ELSE reg.FEATURE_IMPORTANCE
        fb         == IF feedback.st = "ok" THEN feedback.run
                      ELSE reg.FEEDBACK_MAPPING
    IN  IF ~skills.ok
        THEN [ reg |-> [ reg EXCEPT !.MODELS = skills.models ], ret |-> FALSE ]
        ELSE IF importance.st = "partial"
        THEN [ reg |-> [ reg EXCEPT !.MODELS = skills.models ], ret |-> FALSE ]
        ELSE IF feedback.st = "partial"
        THEN [ reg |-> [ reg EXCEPT !.MODELS = skills.models,
                                    !.FEATURE_IMPORTANCE = imp ],
               ret |-> FALSE ]
        ELSE [ reg |-> Registry(skills.models, imp, fb, TRUE), ret |-> TRUE ]

(* A faulty _load_models without the early return.                         *)
load_models_again(reg, disk) == Loaded(reg, disk, LoadSkills(reg.MODELS, disk, 1))

load_models(reg, disk) ==
    IF reg.MODELS_LOADED THEN [ reg |-> reg, ret |-> TRUE ]
    ELSE Loaded(reg, disk, LoadSkills(reg.MODELS, disk, 1))

(* get_models_status()                                                     *)
get_models_status(reg) ==
    [ loaded |-> reg.MODELS_LOADED,
      models |-> SelectSeq(TARGET_LABELS, LAMBDA s : s \in DOMAIN reg.MODELS),
      n_models |-> Cardinality(DOMAIN reg.MODELS) ]

-----------------------------------------------------------------------------
(* scoring.py: score_session                                               *)

Fallback(error) ==
    [ error |-> error, confidence |-> 50, clarity |-> 50, empathy |-> 50,
      communication |-> 50, overall |-> 50,
      low_features |-> << >>, improvement_suggestions |-> << >> ]

Returned(reg, result) == [ reg |-> reg, exc |-> "none", result |-> result ]

Raised(reg, exc) == [ reg |-> reg, exc |-> exc, result |-> << >> ]

(* The prediction loop: the score of a skill, 50 when _MODELS has no model *)
(* for it.                                                                 *)
Scores(models, X) ==
    [ skill \in Range(TARGET_LABELS) |->
        IF skill \in DOMAIN models THEN SkillScore(predict(models[skill], X)) ELSE 50 ]

(* score_session from "Build feature vector" on: the result assembled from *)
(* the scores and the feedback (ScoreResult), the feedback computed        *)
(* (ScorePredicted), the vector validated and the models run (ScoreBuilt). *)
(* predict raises ValueError on an X that has not the number of columns    *)
(* the model was trained on; score_session does not catch it.              *)
ScoreResult(reg, built, scores, low) ==
    IF low.exc # "none" THEN Raised(reg, low.exc)
    ELSE Returned(reg,
             [ confidence |-> scores["confidence"],
               clarity |-> scores["clarity"],
               empathy |-> scores["empathy"],
               communication |-> scores["communication"],
               overall |-> Overall(scores),
               low_features |-> low.low_features,
               improvement_suggestions |->
                   generate_suggestions(low.low_features, scores),
               video_available |-> (built.video_available # 0) ])

ScorePredicted(reg, features, built, scores) ==
    ScoreResult(reg, built, scores, identify_low_features(features, scores))

ScoreBuilt(reg, features, built) ==
    IF built.exc # "none" THEN Raised(reg, built.exc)
    ELSE IF ~validate_feature_vector(built.vector)
    THEN Returned(reg, Fallback("Invalid feature vector"))
    ELSE IF \E skill \in DOMAIN reg.MODELS :
               reg.MODELS[skill].n_features_in # Len(built.vector)
    THEN Raised(reg, "ValueError")
    ELSE ScorePredicted(reg, features, built, Scores(reg.MODELS, built.vector))

ScoreWithModels(reg, features) == ScoreBuilt(reg, features, build_feature_vector(features))

(* A faulty score_session that goes on to score when the retry fails.      *)
ScoreLoaded_without_fallback(reg, load, features) ==
    ScoreWithModels(load.reg, features)

(* score_session(features), return_details = False as every caller in the  *)
(* repository passes it: the registry afterwards, and the dict returned or *)
(* the exception raised.                                                   *)
ScoreLoaded(reg, load, features) ==
    IF ~reg.MODELS_LOADED /\ ~load.ret
    THEN Returned(load.reg, Fallback("Models not loaded"))
    ELSE ScoreWithModels(load.reg, features)

score_session(reg, disk, features) == ScoreLoaded(reg, load_models(reg, disk), features)

(* get_model_info(): the registry afterwards, and the dict returned or the *)
(* exception raised (json.load of a partial training_info.json is not      *)
(* caught).                                                                *)
ModelInfoOf(after, info) ==
    IF info.st = "partial" THEN Raised(after, "JSONDecodeError")
    ELSE Returned(after,
             [ models_loaded |-> after.MODELS_LOADED,
               skills |-> SelectSeq(TARGET_LABELS, LAMBDA s : s \in DOMAIN after.MODELS),
               n_features |-> N_FEATURES,
               feature_names |-> ALL_FEATURES,
               training_info |-> IF info.st = "ok" THEN info.run ELSE 0,
               feature_importance |-> after.FEATURE_IMPORTANCE ])

get_model_info(reg, disk) ==
    ModelInfoOf(load_models(reg, disk).reg, disk["training_info.json"])

-----------------------------------------------------------------------------
(* routes.py: the endpoints, given the flattened feature dict              *)

(* POST /score: score_session, then HTTP 500 when the result carries       *)
(* "error" (or score_session raised), else the result as the response.     *)
ScoreResponse(r) ==
    [ reg |-> r.reg, exc |-> r.exc, result |-> r.result,
      http |-> IF r.exc # "none"
               THEN [ status |-> 500, detail |-> "Internal Server Error" ]
               ELSE IF "error" \in DOMAIN r.result
               THEN [ status |-> 500, detail |-> r.result["error"] ]
               ELSE [ status |-> 200, body |-> r.result ] ]

score(reg, disk, features) == ScoreResponse(score_session(reg, disk, features))

(* GET /model/info: the answer built from the dict of get_model_info,      *)
(* which has no training_info; an exception of get_model_info is the       *)
(* framework's HTTP 500.                                                   *)
ModelInfoResponse(r) ==
    IF r.exc # "none" THEN [ status |-> 500, detail |-> "Internal Server Error" ]
    ELSE [ status |-> 200,
           body |-> [ models_loaded |-> r.result["models_loaded"],
                      skills |-> r.result["skills"],
                      n_features |-> r.result["n_features"],
                      feature_names |-> r.result["feature_names"],
                      feature_importance |-> r.result["feature_importance"] ] ]

(* GET /health                                                             *)
health_check(reg) ==
    LET status == get_models_status(reg)
    IN  [ status |-> IF status.loaded THEN "healthy" ELSE "degraded",
          models_loaded |-> status.loaded,
          models |-> status.models ]

-----------------------------------------------------------------------------
(* Bounds and inputs                                                       *)

(* How many entries of a probe mapping are set one by one on top of a      *)
(* profile.                                                                *)
MaxOverrides == 1

(* How many times the training pipeline rewrites the artifacts while the   *)
(* service runs.                                                           *)
MaxRuns == 1

(* How many sessions a call of score_batch is given at most.               *)
MaxBatch == 1

Override(base, ov) == ov @@ base

(* Profiles: mappings that give every schema feature a value of one kind   *)
(* (validate_models.py, test_edge_cases: empty, all zeros, all max, all    *)
(* min, None values), and values one point outside the range.              *)
Profiles ==
    { << >>,
      [ f \in FeatureNames |-> PyVal("float", 0) ],
      [ f \in FeatureNames |-> PyVal("float", FEATURE_METADATA[f].max) ],
      [ f \in FeatureNames |-> PyVal("float", FEATURE_METADATA[f].min) ],
      [ f \in FeatureNames |-> PyVal("float", FEATURE_METADATA[f].max + 100) ],
      [ f \in FeatureNames |-> PyVal("float", FEATURE_METADATA[f].min - 100) ],
      [ f \in FeatureNames |-> PyNone ],
      [ f \in Range(VIDEO_FEATURES) |-> PyNone ] }

ProbeKeys ==
    { "semantic_relevance_mean", "avg_sentiment", "mean_pause_duration",
      "silence_ratio", "pitch_mean", "eye_contact_ratio", "gaze_variance",
      "video_available", "emotion_mismatch_score", "invalid_feature" }

ProbeValues ==
    { PyNone, PyVal("nan", 0), PyVal("inf", 0), PyVal("ninf", 0),
      PyVal("str", 0), PyVal("numstr", 45), PyVal("list", 0),
      PyVal("bool", 1), PyVal("bool", 0), PyVal("bigint", 0), PyVal("int", 999),
      PyVal("float", 0 - 250), PyVal("float", 7), PyVal("float", 45),
      PyVal("float", 500), PyVal("float", 15000) }

Overrides ==
    UNION { [ D -> ProbeValues ] :
            D \in { S \in SUBSET ProbeKeys : Cardinality(S) <= MaxOverrides } }

VectorInputs == { Override(base, ov) : base \in Profiles, ov \in Overrides }

Dict1(k1, v1) == k1 :> PyVal("float", v1)

(* The inputs of the repository's own checks (validate_models.py:          *)
(* test_edge_cases, test_stability, test_no_crashes; routes.py: the        *)
(* example request), a key that bad_thresholds reads although it is no     *)
(* schema name, and an int too large for a float.                          *)
SessionInputs ==
    { << >>,
      [ f \in FeatureNames |-> PyVal("float", 0) ],
      [ f \in FeatureNames |-> PyVal("float", FEATURE_METADATA[f].max) ],
      [ f \in FeatureNames |-> PyVal("float", FEATURE_METADATA[f].min) ],
      Dict1("semantic_relevance_mean", 80) @@ Dict1("topic_drift_ratio", 10) @@
          Dict1("assertive_phrase_ratio", 50),
      ("speech_rate_wpm" :> PyVal("int", 150)) @@ Dict1("silence_ratio", 20) @@
          Dict1("audio_confidence_prob", 70),
      Dict1("semantic_relevance_mean", 95) @@ Dict1("topic_drift_ratio", 2) @@
          Dict1("assertive_phrase_ratio", 60) @@ Dict1("filler_word_ratio", 1) @@
          Dict1("silence_ratio", 5) @@ Dict1("audio_confidence_prob", 90) @@
          Dict1("audio_nervous_prob", 5) @@ Dict1("monotony_score", 10) @@
          Dict1("empathy_phrase_ratio", 30) @@ Dict1("eye_contact_ratio", 90),
      Dict1("semantic_relevance_mean", 50) @@ Dict1("topic_drift_ratio", 40) @@
          Dict1("hedge_ratio", 50) @@ Dict1("filler_word_ratio", 30) @@
          Dict1("silence_ratio", 40) @@ Dict1("audio_confidence_prob", 20) @@
          Dict1("audio_nervous_prob", 80) @@ Dict1("monotony_score", 70),
      Dict1("semantic_relevance_mean", 70) @@ ("eye_contact_ratio" :> PyNone) @@
          ("smile_ratio" :> PyNone),
      "invalid_feature" :> PyVal("int", 999),
      "semantic_relevance_mean" :> PyVal("str", 0),
      "silence_ratio" :> PyVal("inf", 0),
      "silence_ratio" :> PyVal("ninf", 0),
      Dict1("semantic_relevance_mean", 75) @@ Dict1("topic_drift_ratio", 12) @@
          Dict1("assertive_phrase_ratio", 28) @@ Dict1("silence_ratio", 18) @@
          Dict1("audio_confidence_prob", 65),
      Dict1("semantic_relevance_mean", 75) @@ Dict1("topic_drift_ratio", 10) @@
          Dict1("assertive_phrase_ratio", 30) @@ Dict1("filler_word_ratio", 5) @@
          Dict1("silence_ratio", 15) @@ Dict1("audio_confidence_prob", 70) @@
          Dict1("monotony_score", 20) @@ Dict1("eye_contact_ratio", 80) @@
          Dict1("smile_ratio", 30),
      Dict1("semantic_relevance_mean", 70) @@ Dict1("emotion_mismatch_score", 90),
      "gaze_variance" :> PyVal("bigint", 0) }

(* validate_models.py, test_stability: the input scored five times.        *)
StabilityInput ==
    Dict1("semantic_relevance_mean", 75) @@ Dict1("topic_drift_ratio", 12) @@
    Dict1("assertive_phrase_ratio", 28) @@ Dict1("silence_ratio", 18) @@
    Dict1("audio_confidence_prob", 65)

(* The sessions scored while save_artifacts may be rewriting the           *)
(* artifacts: no features, the stability input, the poor session of        *)
(* validate_models.py and one build_feature_vector raises on.              *)
ServiceInputs ==
    { << >>,
      StabilityInput,
      Dict1("semantic_relevance_mean", 50) @@ Dict1("topic_drift_ratio", 40) @@
          Dict1("hedge_ratio", 50) @@ Dict1("filler_word_ratio", 30) @@
          Dict1("silence_ratio", 40) @@ Dict1("audio_confidence_prob", 20) @@
          Dict1("audio_nervous_prob", 80) @@ Dict1("monotony_score", 70),
      "gaze_variance" :> PyVal("bigint", 0) }

(* The sessions a batch is made of: one that is scored and one             *)
(* build_feature_vector raises on.                                         *)
BatchInputs == { StabilityInput, "gaze_variance" :> PyVal("bigint", 0) }

-----------------------------------------------------------------------------
(* State                                                                   *)
(*   disk       the artifacts under MODELS_DIR                             *)
(*   trainer    save_artifacts of the training pipeline: the run and the   *)
(*              next step of it (0: not running)                           *)
(*   phase      "boot" before app.decision.scoring is imported, "serving"  *)
(*              after; "vector" when only the feature contract is used     *)
(*   MODELS, FEATURE_IMPORTANCE, FEEDBACK_MAPPING, MODELS_LOADED           *)
(*              the module globals of scoring.py                           *)
(*   call, ret  the call in hand (with the registry it started from and    *)
(*              the files it has read) and what it returns; the service    *)
(*              runs one call at a time, while save_artifacts runs in a    *)
(*              process of its own                                         *)
(*   first      what the first score_session(StabilityInput) returned,     *)
(*              where the stability test is run                            *)
(*   threads    the score_session calls running in threads of one process, *)
(*              each with its position in the function and its locals      *)

VARIABLES disk, trainer, phase, MODELS, FEATURE_IMPORTANCE, FEEDBACK_MAPPING,
          MODELS_LOADED, call, ret, first, threads

vars == << disk, trainer, phase, MODELS, FEATURE_IMPORTANCE, FEEDBACK_MAPPING,
           MODELS_LOADED, call, ret, first, threads >>

Reg == Registry(MODELS, FEATURE_IMPORTANCE, FEEDBACK_MAPPING, MODELS_LOADED)

SetReg(reg) ==
    /\ MODELS' = reg.MODELS
    /\ FEATURE_IMPORTANCE' = reg.FEATURE_IMPORTANCE
    /\ FEEDBACK_MAPPING' = reg.FEEDBACK_MAPPING
    /\ MODELS_LOADED' = reg.MODELS_LOADED

(* scoring.py lines 56-59: the globals before _load_models() runs.         *)
EmptyRegistry == Registry(<< >>, 0, 0, FALSE)

(* The call in hand: op is the operation returned from, or where the call  *)
(* is ("load": in _load_models, "info": before training_info.json) with    *)
(* for the operation; left is the number of sessions a batch has yet to    *)
(* score.                                                                  *)
Call(op, features, before) ==
    [ op |-> op, features |-> features, before |-> before, seen |-> << >>,
      for |-> op, left |-> 0 ]

InProgress == { "load", "info" }

Idle == Call("idle", << >>, EmptyRegistry)

NoReturn == [ exc |-> "none" ]

(* The stability test has yet to see its first result; Unwatched: no       *)
(* stability test is run.                                                  *)
NotYet == [ watch |-> TRUE, set |-> FALSE, exc |-> "none", result |-> << >> ]

Unwatched == [ NotYet EXCEPT !.watch = FALSE ]

(* save_artifacts writes the files the service reads in this order (the    *)
(* schema and behaviour reports, which the service never reads, are left   *)
(* out): step 2k-1 opens file k for writing, step 2k completes it.         *)
SaveOrder ==
    << "confidence_model.pkl", "clarity_model.pkl", "empathy_model.pkl",
       "communication_model.pkl", "training_info.json",
       "feature_importance.json", "feedback_mapping.json" >>

(* The deployments the service starts from: any of the four models may be  *)
(* missing, and the three JSON tables are all there or all missing.        *)
Deployments ==
    { [ f \in Files |-> IF f \in present THEN File("ok", 0) ELSE Absent ] :
      present \in { M \cup J : M \in SUBSET ModelFiles, J \in { {}, SideFiles } } }

Init ==
    /\ disk \in Deployments
    /\ trainer = [ run |-> 0, step |-> 0 ]
    /\ phase = "boot"
    /\ MODELS = EmptyRegistry.MODELS
    /\ FEATURE_IMPORTANCE = EmptyRegistry.FEATURE_IMPORTANCE
    /\ FEEDBACK_MAPPING = EmptyRegistry.FEEDBACK_MAPPING
    /\ MODELS_LOADED = EmptyRegistry.MODELS_LOADED
    /\ call = Idle
    /\ ret = NoReturn
    /\ first = Unwatched
    /\ threads = << >>

-----------------------------------------------------------------------------
(* train_model.py: save_artifacts, a step at a time between the file reads *)
(* of the service.  It waits while a call that has returned is answered:   *)
(* a write then and the same write after the answer lead to the same       *)
(* state.                                                                  *)

StartRun ==
    /\ call.op \in { "idle" } \cup InProgress
    /\ trainer.step = 0
    /\ trainer.run < MaxRuns
    /\ trainer' = [ run |-> trainer.run + 1, step |-> 1 ]
    /\ UNCHANGED << disk, phase, MODELS, FEATURE_IMPORTANCE, FEEDBACK_MAPPING,
                    MODELS_LOADED, call, ret, first, threads >>

NextStep == IF trainer.step = 2 * Len(SaveOrder) THEN 0 ELSE trainer.step + 1

(* with open(path, 'wb') as f: the file exists and is empty.               *)
SaveOpen ==
    /\ call.op \in { "idle" } \cup InProgress
    /\ trainer.step > 0
    /\ trainer.step % 2 = 1
    /\ disk' = [ disk EXCEPT ![SaveOrder[(trainer.step + 1) \div 2]] =
                                 File("partial", trainer.run) ]
    /\ trainer' = [ trainer EXCEPT !.step = NextStep ]
    /\ UNCHANGED << phase, MODELS, FEATURE_IMPORTANCE, FEEDBACK_MAPPING,
                    MODELS_LOADED, call, ret, first, threads >>

(* pickle.dump / json.dump and the close of the file.                      *)
SaveDump ==
    /\ call.op \in { "idle" } \cup InProgress
    /\ trainer.step > 0
    /\ trainer.step % 2 = 0
    /\ disk' = [ disk EXCEPT ![SaveOrder[trainer.step \div 2]] =
                                 File("ok", trainer.run) ]
    /\ trainer' = [ trainer EXCEPT !.step = NextStep ]
    /\ UNCHANGED << phase, MODELS, FEATURE_IMPORTANCE, FEEDBACK_MAPPING,
                    MODELS_LOADED, call, ret, first, threads >>

-----------------------------------------------------------------------------
(* The service                                                             *)
(*                                                                         *)
(* _load_models tests and reads its files one after another while          *)
(* save_artifacts, in another process, may be writing them: a step of a    *)
(* call reads one file.  call.seen maps the files the call has read to     *)
(* what it found in each when it read it; os.path.exists and the read that *)
(* follows it are one step, as save_artifacts removes no file.             *)

(* The files _load_models reads, in the order it comes to them.            *)
LoadOrder ==
    [ i \in 1..Len(TARGET_LABELS) |-> model_path[TARGET_LABELS[i]] ] \o
    << "feature_importance.json", "feedback_mapping.json" >>

(* The directory as a call has met it, with rest in the place of the files *)
(* it has not read.                                                        *)
Met(seen, rest) == [ f \in Files |-> IF f \in DOMAIN seen THEN seen[f] ELSE rest ]

(* The files read so far, followed by one the load stops at: what          *)
(* _load_models has done to the globals when it has read the files of seen *)
(* and no other.                                                           *)
SoFar(seen) == Met(seen, File("partial", 0))

(* _load_models reads no file beyond those of seen: it has returned (line  *)
(* 70, 81, 96 or 100), so that what it leaves does not depend on the files *)
(* it has not read.                                                        *)
Settled(reg, seen) ==
    load_models(reg, SoFar(seen)) = load_models(reg, Met(seen, File("ok", 0)))

(* The file the load comes to next, and seen once f is read.               *)
NextFile(seen) == LoadOrder[Cardinality(DOMAIN seen) + 1]

Read(seen, f) == (f :> disk[f]) @@ seen

(* The call is inside _load_models, past the early return.                 *)
Load(for, features, before, left) ==
    [ Call("load", features, before) EXCEPT !.for = for, !.left = left ]

(* The call has returned, having read the files of seen.                   *)
Done(op, features, before, seen) ==
    [ Call(op, features, before) EXCEPT !.seen = seen ]

(* The import of app.decision.scoring: its last statement, _load_models(), *)
(* is entered with _MODELS_LOADED False.                                   *)
Import ==
    /\ phase = "boot"
    /\ call.op = "idle"
    /\ call' = Load("import", << >>, Reg, 0)
    /\ phase' = "serving"
    /\ UNCHANGED << disk, trainer, MODELS, FEATURE_IMPORTANCE, FEEDBACK_MAPPING,
                    MODELS_LOADED, ret, first, threads >>

Imported(seen, load) ==
    /\ SetReg(load.reg)
    /\ call' = Done("import", << >>, call.before, seen)
    /\ ret' = [ exc |-> "none", ret |-> load.ret ]
    /\ UNCHANGED first

(* score_session(features), called by POST /score with the flattened       *)
(* features or by another caller of the module, from the statement after   *)
(* its last file read on.  The features are drawn here, where              *)
(* score_session first reads them.  ret.http is the answer of POST /score  *)
(* to a body its request models accepted as these features; a body they    *)
(* reject never reaches score_session and is no call here.                 *)
Scoring(features, before, seen, r) ==
    /\ SetReg(r.reg)
    /\ call' = Done("score", features, before, seen)
    /\ ret' = [ exc |-> r.exc, result |-> r.result, http |-> r.http ]
    /\ first' = IF first.watch /\ features = StabilityInput /\ ~first.set
                THEN [ first EXCEPT !.set = TRUE, !.exc = r.exc, !.result = r.result ]
                ELSE first

(* score_session is called: it goes through to its result when it has no   *)
(* file to read, and into _load_models when it has.                        *)
ScoreCalled(inputs) ==
    /\ IF Settled(Reg, << >>)
       THEN \E features \in inputs :
               Scoring(features, Reg, << >>, score(Reg, SoFar(<< >>), features))
       ELSE /\ call' = Load("score", << >>, Reg, 0)
            /\ UNCHANGED << MODELS, FEATURE_IMPORTANCE, FEEDBACK_MAPPING,
                            MODELS_LOADED, ret, first >>
    /\ UNCHANGED << disk, trainer, phase, threads >>

Score ==
    /\ phase = "serving"
    /\ call.op = "idle"
    /\ ScoreCalled(ServiceInputs)

(* score_batch(features_list): score_session for one session after the     *)
(* other, each with its own load attempt while _MODELS_LOADED is False.    *)
(* call.left sessions are still to score, call.features are those          *)
(* score_session has been called with and ret.result is the list built so  *)
(* far; an exception of score_session ends the batch.                      *)

(* The sessions fs scored on a registry that is ready: score_session reads *)
(* no file and leaves the registry as it is.                               *)
ScoredReady(reg, fs) ==
    [ i \in 1..Len(fs) |-> score_session(reg, SoFar(<< >>), fs[i]) ]

(* The first of the results rs that is an exception, Len(rs) + 1 when none *)
(* is.                                                                     *)
FirstRaised(rs) ==
    CHOOSE i \in 1..(Len(rs) + 1) :
        /\ i <= Len(rs) => rs[i].exc # "none"
        /\ \A j \in 1..(i - 1) : rs[j].exc = "none"

(* The rest of the batch on a service that is ready, up to the first       *)
(* session score_session raises on.                                        *)
BatchEnds(before, done, results, fs, rs, k, seen) ==
    /\ call' = Done("score_batch", done \o SubSeq(fs, 1, IF k > Len(fs) THEN Len(fs) ELSE k),
                    before, seen)
    /\ ret' = IF k <= Len(rs) THEN [ exc |-> rs[k].exc, result |-> << >> ]
              ELSE [ exc |-> "none",
                     result |-> results \o [ i \in 1..Len(rs) |-> rs[i].result ] ]

(* The batch goes on after the results so far for the sessions done: to    *)
(* its end when no session is left or the service is ready, else into the  *)
(* load attempt of the next session.  before is the registry score_batch   *)
(* was entered with.                                                       *)
BatchGoesOn(before, reg, done, results, left, seen) ==
    /\ SetReg(reg)
    /\ IF left > 0 /\ ~Settled(reg, << >>)
       THEN /\ call' = [ Load("score_batch", done, before, left) EXCEPT !.seen = << >> ]
            /\ ret' = [ exc |-> "none", result |-> results ]
       ELSE \E fs \in [ 1..left -> BatchInputs ] :
               BatchEnds(before, done, results, fs, ScoredReady(reg, fs),
                         FirstRaised(ScoredReady(reg, fs)), seen)
    /\ UNCHANGED first

ScoreBatch ==
    /\ phase = "serving"
    /\ call.op = "idle"
    /\ \E n \in 0..MaxBatch :
          BatchGoesOn(Reg, Reg, << >>, << >>, n, << >>)
    /\ UNCHANGED << disk, trainer, phase, threads >>

(* The load attempt of a session has ended and the session is scored.      *)
BatchScored(features, seen, r) ==
    IF r.exc # "none"
    THEN /\ SetReg(r.reg)
         /\ call' = Done("score_batch", Append(call.features, features), call.before, seen)
         /\ ret' = [ exc |-> r.exc, result |-> << >> ]
         /\ UNCHANGED first
    ELSE BatchGoesOn(call.before, r.reg, Append(call.features, features),
                     Append(ret.result, r.result), call.left - 1, seen)

(* GET /health                                                             *)
Health ==
    /\ phase = "serving"
    /\ call.op = "idle"
    /\ call' = Call("health", << >>, Reg)
    /\ ret' = [ exc |-> "none", result |-> health_check(Reg) ]
    /\ UNCHANGED << disk, trainer, phase, MODELS, FEATURE_IMPORTANCE,
                    FEEDBACK_MAPPING, MODELS_LOADED, first, threads >>

(* get_model_info(), called by GET /model/info: into _load_models when it  *)
(* has a file to read, else on to training_info.json.                      *)
ModelInfo ==
    /\ phase = "serving"
    /\ call.op = "idle"
    /\ call' = [ Load("model_info", << >>, Reg, 0) EXCEPT
                    !.op = IF Settled(Reg, << >>) THEN "info" ELSE "load" ]
    /\ UNCHANGED << disk, trainer, phase, MODELS, FEATURE_IMPORTANCE,
                    FEEDBACK_MAPPING, MODELS_LOADED, ret, first, threads >>

(* _load_models has returned to get_model_info, which ignores its value.   *)
InfoLoaded(seen, load) ==
    /\ SetReg(load.reg)
    /\ call' = [ call EXCEPT !.op = "info", !.seen = seen ]
    /\ UNCHANGED << ret, first >>

(* One step of _load_models: the next file is tested and read, the globals *)
(* are assigned, and when the load has ended the call goes on to its next  *)
(* read of a file or to its end.                                           *)
Loading(seen) ==
    IF ~Settled(Reg, seen)
    THEN /\ SetReg(load_models(Reg, SoFar(seen)).reg)
         /\ call' = [ call EXCEPT !.seen = seen ]
         /\ UNCHANGED << ret, first >>
    ELSE CASE call.for = "import" -> Imported(seen, load_models(Reg, SoFar(seen)))
           [] call.for = "score" ->
                 \E features \in ServiceInputs :
                    Scoring(features, call.before, seen, score(Reg, SoFar(seen), features))
           [] call.for = "score_batch" ->
                 \E features \in BatchInputs :
                    BatchScored(features, seen, score_session(Reg, SoFar(seen), features))
           [] call.for = "model_info" -> InfoLoaded(seen, load_models(Reg, SoFar(seen)))

LoadFile ==
    /\ call.op = "load"
    /\ Loading(Read(call.seen, NextFile(call.seen)))
    /\ UNCHANGED << disk, trainer, phase, threads >>

(* get_model_info from "Load training info if available" on, and the       *)
(* answer of the route.                                                    *)
Informing(seen, r) ==
    /\ SetReg(r.reg)
    /\ call' = Done("model_info", << >>, call.before, seen)
    /\ ret' = [ exc |-> r.exc, result |-> r.result, http |-> ModelInfoResponse(r) ]
    /\ UNCHANGED first

ReadInfo ==
    /\ call.op = "info"
    /\ Informing(Read(call.seen, "training_info.json"),
                 get_model_info(Reg, SoFar(Read(call.seen, "training_info.json"))))
    /\ UNCHANGED << disk, trainer, phase, threads >>

(* The response has been sent: the next call can be served.                *)
Respond ==
    /\ call.op \notin { "idle", "build" } \cup InProgress
    /\ call' = Idle
    /\ ret' = NoReturn
    /\ UNCHANGED << disk, trainer, phase, MODELS, FEATURE_IMPORTANCE,
                    FEEDBACK_MAPPING, MODELS_LOADED, first, threads >>

Next ==
    \/ StartRun
    \/ SaveOpen
    \/ SaveDump
    \/ Import
    \/ Score
    \/ ScoreBatch
    \/ Health
    \/ ModelInfo
    \/ LoadFile
    \/ ReadInfo
    \/ Respond

Spec == Init /\ [][Next]_vars

(* validate_models.py, test_stability, run against the service: the first  *)
(* result for StabilityInput is kept to compare the later ones with.       *)
InitStability ==
    /\ disk \in Deployments
    /\ trainer = [ run |-> 0, step |-> 0 ]
    /\ phase = "boot"
    /\ MODELS = EmptyRegistry.MODELS
    /\ FEATURE_IMPORTANCE = EmptyRegistry.FEATURE_IMPORTANCE
    /\ FEEDBACK_MAPPING = EmptyRegistry.FEEDBACK_MAPPING
    /\ MODELS_LOADED = EmptyRegistry.MODELS_LOADED
    /\ call = Idle
    /\ ret = NoReturn
    /\ first = NotYet
    /\ threads = << >>

SpecStability == InitStability /\ [][Next]_vars

-----------------------------------------------------------------------------
(* The feature contract alone: build_feature_vector applied to a raw       *)
(* mapping drawn from VectorInputs.                                        *)

InitVector ==
    /\ disk = [ f \in Files |-> Absent ]
    /\ trainer = [ run |-> 0, step |-> 0 ]
    /\ phase = "vector"
    /\ MODELS = EmptyRegistry.MODELS
    /\ FEATURE_IMPORTANCE = EmptyRegistry.FEATURE_IMPORTANCE
    /\ FEEDBACK_MAPPING = EmptyRegistry.FEEDBACK_MAPPING
    /\ MODELS_LOADED = EmptyRegistry.MODELS_LOADED
    /\ \E features \in VectorInputs : call = Call("build", features, EmptyRegistry)
    /\ ret = [ exc |-> "none", done |-> FALSE ]
    /\ first = NotYet
    /\ threads = << >>

Building(built) ==
    ret' = [ exc |-> built.exc, done |-> TRUE, vector |-> built.vector,
             video_available |-> built.video_available ]

BuildVector ==
    /\ phase = "vector"
    /\ ~ret.done
    /\ Building(build_feature_vector(call.features))
    /\ UNCHANGED << disk, trainer, phase, MODELS, FEATURE_IMPORTANCE,
                    FEEDBACK_MAPPING, MODELS_LOADED, call, first, threads >>

NextVector == BuildVector

SpecVector == InitVector /\ [][NextVector]_vars

-----------------------------------------------------------------------------
(* score_session with the four models loaded: the regressors are drawn     *)
(* from a family whose predictions are negative, above 100, fractional and *)
(* halfway between two integers, and every input of SessionInputs is       *)
(* scored.                                                                 *)

(* Predictions, in hundredths, that round (half to even) to the scores of  *)
(* the worked example of the overall formula.                              *)
ExamplePrediction ==
    ("confidence" :> 8050) @@ ("clarity" :> 6050) @@ ("empathy" :> 4050) @@
    ("communication" :> 8050)

Predictions(skill) == { 0 - 587, 4950, 10513, ExamplePrediction[skill] }

RegressorFamily(skill) ==
    { Regressor(base, TrainedModel(skill, 0).feature,
                TrainedModel(skill, 0).threshold, 0, 0 - 263) : base \in Predictions(skill) }

InitScore ==
    /\ disk = [ f \in Files |-> File("ok", 0) ]
    /\ trainer = [ run |-> 0, step |-> 0 ]
    /\ phase = "serving"
    /\ \E c \in RegressorFamily("confidence"), l \in RegressorFamily("clarity"),
          e \in RegressorFamily("empathy"), m \in RegressorFamily("communication") :
          MODELS = ("confidence" :> c) @@ ("clarity" :> l) @@ ("empathy" :> e) @@
                   ("communication" :> m)
    /\ FEATURE_IMPORTANCE = 0
    /\ FEEDBACK_MAPPING = 0
    /\ MODELS_LOADED = TRUE
    /\ call = Idle
    /\ ret = NoReturn
    /\ first = NotYet
    /\ threads = << >>

(* score_session on a service that is ready.                               *)
ScoreReady ==
    /\ phase = "serving"
    /\ call.op = "idle"
    /\ ScoreCalled(SessionInputs)

NextScore ==
    \/ ScoreReady
    \/ Respond

SpecScore == InitScore /\ [][NextScore]_vars

-----------------------------------------------------------------------------
(* Vocabulary of the properties                                            *)

VideoNames == Range(VIDEO_FEATURES)

(* A key of the mapping whose value is not None.                           *)
Present(features, f) == f \in DOMAIN features /\ features[f] # PyNone

(* Missing, None, not convertible, NaN or infinite.                        *)
Unusable(features, f) ==
    \/ f \notin DOMAIN features
    \/ features[f].t \in { "none", "nan", "inf", "ninf", "str", "list" }

(* The number a usable value stands for, in hundredths.                    *)
Number(value) == IF value.t \in { "int", "bool" } THEN 100 * value.v ELSE value.v

(* x, a float32, lies in [lo/100, hi/100].                                 *)
Within(x, lo, hi) == F32Cmp(x, lo) >= 0 /\ F32Cmp(x, hi) <= 0

(* build_feature_vector has returned a vector for call.features.           *)
Built == phase = "vector" /\ ret.done /\ ret.exc = "none"

Element(f) == ret.vector[FEATURE_INDEX[f]]

(* score_session has returned a dict for call.features.                    *)
Scored == call.op = "score" /\ ret.exc = "none"

SkillNames == Range(TARGET_LABELS)

ScoreKeys == SkillNames \cup { "overall" }

-----------------------------------------------------------------------------
(* C1: for every raw mapping build_feature_vector never raises and returns *)
(* a vector of exactly N = len(ALL_FEATURES) elements.  The code lets the  *)
(* OverflowError of float(10**400) escape: violated.                       *)
C1_NeverRaises ==
    (phase = "vector" /\ ret.done) =>
        (ret.exc = "none" /\ Len(ret.vector) = N_FEATURES)

(* C2: every element of the built vector lies in [min_f, max_f] of its     *)
(* feature; a usable raw value inside the range is kept (as the float32    *)
(* the vector stores), one below min_f becomes min_f, one above max_f      *)
(* becomes max_f (silence_ratio = 5.0 yields 1.0), and every default and   *)
(* the 0.0 placeholder of the video features lie inside the range.         *)
C2_RangeInvariant ==
    Built =>
        \A f \in FeatureNames :
            LET meta == FEATURE_METADATA[f]
                raw  == call.features
            IN  /\ Within(Element(f), meta.min, meta.max)
                /\ (f \in DOMAIN raw /\ ~Unusable(raw, f)) =>
                      LET v == Number(raw[f])
                      IN  /\ (meta.min <= v /\ v <= meta.max) => Element(f) = F32(v)
                          /\ v < meta.min => Element(f) = F32(meta.min)
                          /\ v > meta.max => Element(f) = F32(meta.max)
                /\ Within(F32(meta.default), meta.min, meta.max)
                /\ meta.optional => Within(F32(0), meta.min, meta.max)
                /\ ("silence_ratio" \in DOMAIN raw /\ raw["silence_ratio"] = PyVal("float", 500))
                      => Element("silence_ratio") = F32(100)

C2_Witness ==
    /\ Built
    /\ "silence_ratio" \in DOMAIN call.features
    /\ call.features["silence_ratio"] = PyVal("float", 500)
    /\ Element("silence_ratio") = F32(100)
    /\ Element("pitch_mean") = F32(FEATURE_METADATA["pitch_mean"].min)
    /\ "pitch_mean" \in DOMAIN call.features

(* C3: with no video feature present the flag is 0 and every video element *)
(* is 0.0; with at least one present the flag is 1 and every video feature *)
(* that is missing or unusable gets its default; text and audio features   *)
(* that are missing or unusable get their default in both cases.           *)
C3_VideoBranching ==
    Built =>
        LET raw   == call.features
            video == \E v \in VideoNames : Present(raw, v)
        IN  /\ ~video => /\ ret.video_available = 0
                         /\ \A v \in VideoNames : Element(v) = F32(0)
            /\ video => /\ ret.video_available = 1
                        /\ \A v \in VideoNames :
                              Unusable(raw, v) => Element(v) = F32(FEATURE_METADATA[v].default)
            /\ \A f \in FeatureNames \ VideoNames :
                  Unusable(raw, f) => Element(f) = F32(FEATURE_METADATA[f].default)

(* One video feature is present but unusable, another one is missing and   *)
(* has a default that is not 0.0.                                          *)
C3_Witness ==
    /\ Built
    /\ ret.video_available = 1
    /\ Present(call.features, "gaze_variance")
    /\ Unusable(call.features, "gaze_variance")
    /\ "smile_ratio" \notin DOMAIN call.features
    /\ Element("smile_ratio") = F32(30)
    /\ Element("gaze_variance") = F32(30)

(* C4: get_video_available returns 1 exactly when some name of             *)
(* VIDEO_FEATURES is a key whose value is not None, whatever that value    *)
(* is; other keys never make it 1.                                         *)
C4_VideoAvailable ==
    (phase = "vector" /\ ret.done) =>
        /\ ret.video_available \in { 0, 1 }
        /\ ret.video_available = 1 <=>
              { k \in DOMAIN call.features \cap VideoNames :
                    call.features[k].t # "none" } # {}

(* The only video key carries NaN: present, so the flag is 1.              *)
C4_Witness ==
    /\ phase = "vector" /\ ret.done
    /\ ret.video_available = 1
    /\ DOMAIN call.features \cap VideoNames = { "eye_contact_ratio" }
    /\ call.features["eye_contact_ratio"].t = "nan"

-----------------------------------------------------------------------------
(* The prediction of the loaded model of a skill for call.features.        *)
Prediction(skill) ==
    predict(MODELS[skill], build_feature_vector(call.features).vector)

(* s is p/100 rounded to a nearest integer and then clamped to [0, 100].   *)
NearestClamped(s, p) ==
    \/ 100 * s - 50 <= p /\ p <= 100 * s + 50
    \/ s = 0 /\ p < 0
    \/ s = 100 /\ p > 10000

(* C5: the four skill scores and the overall score of every result are     *)
(* integers in 0..100, and each skill score is the prediction rounded to   *)
(* the nearest integer and then clamped to [0, 100].                       *)
C5_ScoreBounds ==
    Scored =>
        /\ \A k \in ScoreKeys : ret.result[k] \in 0..100
        /\ "error" \notin DOMAIN ret.result =>
              \A skill \in SkillNames :
                  NearestClamped(ret.result[skill], Prediction(skill))

(* A prediction above 100 clamped to 100, one below 0 clamped to 0, one    *)
(* strictly between two integers and one halfway between two.              *)
C5_Witness ==
    /\ Scored
    /\ "error" \notin DOMAIN ret.result
    /\ Prediction("confidence") > 10000 /\ ret.result["confidence"] = 100
    /\ Prediction("clarity") < 0 /\ ret.result["clarity"] = 0
    /\ Prediction("empathy") = 3787 /\ ret.result["empathy"] = 38
    /\ Prediction("communication") = 4950 /\ ret.result["communication"] = 50

(* C6: when scoring succeeds, overall is                                   *)
(* 0.25*confidence + 0.30*clarity + 0.20*empathy + 0.25*communication      *)
(* rounded to the nearest integer; (80, 60, 40, 80) gives 66.              *)
C6_OverallFormula ==
    (Scored /\ "error" \notin DOMAIN ret.result) =>
        LET r == ret.result
            weighted == 25 * r["confidence"] + 30 * r["clarity"]
                        + 20 * r["empathy"] + 25 * r["communication"]
        IN  /\ 100 * r["overall"] - weighted \in (0 - 50)..50
            /\ (r["confidence"] = 80 /\ r["clarity"] = 60 /\ r["empathy"] = 40
                    /\ r["communication"] = 80) => r["overall"] = 66

C6_Witness ==
    /\ Scored
    /\ "error" \notin DOMAIN ret.result
    /\ ret.result["confidence"] = 80 /\ ret.result["clarity"] = 60
    /\ ret.result["empathy"] = 40 /\ ret.result["communication"] = 80
    /\ ret.result["overall"] = 66

(* C7: a score_session call that finds the models not loaded and whose     *)
(* retry does not load them raises nothing and returns 50 for the four     *)
(* skills and overall, empty low_features and improvement_suggestions,     *)
(* and an error marker.                                                    *)
C7_DegradedFallback ==
    (call.op = "score" /\ ~call.before.MODELS_LOADED /\ ~MODELS_LOADED) =>
        /\ ret.exc = "none"
        /\ \A k \in ScoreKeys : ret.result[k] = 50
        /\ ret.result["low_features"] = << >>
        /\ ret.result["improvement_suggestions"] = << >>
        /\ "error" \in DOMAIN ret.result

(* The retry stored some of the models and the input has features the      *)
(* feedback rules flag, yet the fallback is returned.                      *)
C7_Witness ==
    /\ call.op = "score" /\ ~call.before.MODELS_LOADED /\ ~MODELS_LOADED
    /\ DOMAIN MODELS # {}
    /\ identify_low_features(call.features, << >>).low_features # << >>
    /\ ret.exc = "none"
    /\ ret.result["overall"] = 50

(* The call has read file f and found it in state st.                      *)
Found(f, st) == f \in DOMAIN call.seen /\ call.seen[f].st = st

(* C8: when _load_models runs with at least one of the four model files    *)
(* absent, it reports failure and the service is degraded afterwards,      *)
(* whichever model is missing and however many were found before it.  A    *)
(* file is absent for the load when the load finds it absent, or when it   *)
(* is absent as the load returns (no file is ever removed).                *)
C8_AllOrNothing ==
    (/\ call.op \in { "import", "score", "score_batch", "model_info" }
     /\ ~call.before.MODELS_LOADED
     /\ \E skill \in SkillNames :
           \/ disk[model_path[skill]].st = "absent"
           \/ Found(model_path[skill], "absent")) =>
        /\ ~MODELS_LOADED
        /\ ~get_models_status(Reg).loaded
        /\ health_check(Reg).status = "degraded"
        /\ call.op = "import" => ret.ret = FALSE

(* Only the last model is absent: three were found before it.              *)
C8_Witness ==
    /\ call.op = "import"
    /\ Found(model_path["communication"], "absent")
    /\ \A skill \in SkillNames \ { "communication" } : Found(model_path[skill], "ok")
    /\ Cardinality(DOMAIN MODELS) = 3
    /\ ret.ret = FALSE
    /\ health_check(Reg).status = "degraded"

(* C9: score_session returns the same result whenever it is called with    *)
(* the same input.  The retry of _load_models inside score_session picks   *)
(* up model files written after a failed import: violated.                 *)
C9_Deterministic ==
    (call.op = "score" /\ call.features = StabilityInput /\ first.set) =>
        (ret.exc = first.exc /\ ret.result = first.result)

(* C10: every result score_session returns carries the four skill scores,  *)
(* overall, video_available, low_features and improvement_suggestions, in  *)
(* the normal and in both fallback outcomes.  The fallback dicts have no   *)
(* video_available: violated.                                              *)
C10_CompleteResult ==
    Scored =>
           (ScoreKeys \cup { "video_available", "low_features",
                             "improvement_suggestions" }) \subseteq DOMAIN ret.result

-----------------------------------------------------------------------------
(* Vocabulary of the feedback properties                                   *)

(* The raw value of f is a finite number.                                  *)
FiniteNumber(features, f) ==
    f \in DOMAIN features /\ features[f].t \in { "float", "int", "bool", "numstr" }

(* v, in hundredths, is on the bad side of the rule's threshold.           *)
Crosses(rule, v) ==
    \/ rule.direction = "high" /\ v > rule.threshold
    \/ rule.direction = "low" /\ v < rule.threshold

(* The rule's feature has a finite raw value on the bad side.              *)
Flagged(features, rule) ==
    FiniteNumber(features, rule.feat) /\ Crosses(rule, Number(features[rule.feat]))

(* The positions of bad_thresholds whose rule flags its feature.           *)
FlaggedRules(features) ==
    { i \in 1..Len(bad_thresholds) : Flagged(features, bad_thresholds[i]) }

(* C11: in every result of score_session low_features has at most 5        *)
(* entries and improvement_suggestions has at most 5 entries, however many *)
(* rules fire and however many skill scores are below 50.                  *)
C11_FeedbackCap ==
    Scored =>
        /\ Len(ret.result["low_features"]) <= 5
        /\ Len(ret.result["improvement_suggestions"]) <= 5

(* Seven rules fire and three scores are below 50: both lists are cut to   *)
(* five.                                                                   *)
C11_Witness ==
    /\ Scored
    /\ Cardinality(FlaggedRules(call.features)) >= 7
    /\ \A k \in { "confidence", "clarity", "empathy" } : ret.result[k] < 50
    /\ Len(ret.result["low_features"]) = 5
    /\ Len(ret.result["improvement_suggestions"]) = 5

(* The entries of a raw mapping whose keys are names of ALL_FEATURES.      *)
SchemaEntries(features) ==
    [ k \in DOMAIN features \cap FeatureNames |-> features[k] ]

(* C12: entries whose keys are not names of ALL_FEATURES are ignored:      *)
(* score_session returns for a mapping what it returns for the mapping     *)
(* without them.  emotion_mismatch_score is no schema name, yet a rule of  *)
(* bad_thresholds reads it: violated.                                      *)
C12_UnknownKeysIgnored ==
    call.op = "score" =>
        LET alone == score_session(call.before, disk, SchemaEntries(call.features))
        IN  ret.exc = alone.exc /\ ret.result = alone.result

(* C13: the registry is written only by the load at module import: no      *)
(* later call of score_session, score_batch, get_models_status (the health *)
(* endpoint) or get_model_info changes any part of it.  score_session and  *)
(* get_model_info call _load_models again while _MODELS_LOADED is false:   *)
(* violated.                                                               *)
C13_LoadedOnce ==
    call.op \in { "score", "score_batch", "health", "model_info" } => Reg = call.before

-----------------------------------------------------------------------------
(* score_session called from several threads of one process, while         *)
(* save_artifacts may be rewriting MODELS_DIR.  A step is one statement of *)
(* score_session or of the _load_models it calls: the globals are read and *)
(* written between the steps of the other threads.                         *)

MaxThreads == 2

Threads == 1..MaxThreads

IdleThread ==
    [ pc |-> "idle", features |-> << >>, i |-> 0, local |-> << >>, X |-> << >>,
      video |-> 0, scores |-> << >>, seen |-> << >>, exc |-> "none", result |-> << >> ]

(* The thread returns result / raises exc.                                 *)
Leaves(th, exc, result) == [ th EXCEPT !.pc = "done", !.exc = exc, !.result = result ]

(* Module import has run _load_models() once on the deployment.            *)
InitConcurrent ==
    /\ disk \in Deployments
    /\ trainer = [ run |-> 0, step |-> 0 ]
    /\ phase = "threads"
    /\ MODELS = load_models(EmptyRegistry, disk).reg.MODELS
    /\ FEATURE_IMPORTANCE = load_models(EmptyRegistry, disk).reg.FEATURE_IMPORTANCE
    /\ FEEDBACK_MAPPING = load_models(EmptyRegistry, disk).reg.FEEDBACK_MAPPING
    /\ MODELS_LOADED = load_models(EmptyRegistry, disk).reg.MODELS_LOADED
    /\ call = Idle
    /\ ret = NoReturn
    /\ first = NotYet
    /\ threads = [ t \in Threads |-> IdleThread ]

(* score_session(features) is called.                                      *)
Begin ==
    /\ \E t \in Threads :
          /\ threads[t].pc = "idle"
          /\ threads' = [ threads EXCEPT ![t] =
                            [ IdleThread EXCEPT !.pc = "check", !.features = StabilityInput ] ]
    /\ UNCHANGED << disk, trainer, phase, MODELS, FEATURE_IMPORTANCE, FEEDBACK_MAPPING,
                    MODELS_LOADED, call, ret, first >>

(* if not _MODELS_LOADED:                                                  *)
CheckLoaded ==
    /\ \E t \in Threads :
          /\ threads[t].pc = "check"
          /\ threads' = [ threads EXCEPT ![t].pc = IF MODELS_LOADED THEN "build" ELSE "load" ]
    /\ UNCHANGED << disk, trainer, phase, MODELS, FEATURE_IMPORTANCE, FEEDBACK_MAPPING,
                    MODELS_LOADED, call, ret, first >>

(* _load_models(): if _MODELS_LOADED: return True                          *)
EnterLoad ==
    /\ \E t \in Threads :
          /\ threads[t].pc = "load"
          /\ threads' = [ threads EXCEPT ![t].pc = IF MODELS_LOADED THEN "build" ELSE "skill",
                                         ![t].i = 1 ]
    /\ UNCHANGED << disk, trainer, phase, MODELS, FEATURE_IMPORTANCE, FEEDBACK_MAPPING,
                    MODELS_LOADED, call, ret, first >>

(* One turn of the loop over TARGET_LABELS up to the value of              *)
(* pickle.load(f), which the thread holds in local: return False, and the  *)
(* fallback of score_session, on a file that is missing or does not        *)
(* unpickle.                                                               *)
ReadSkill ==
    /\ \E t \in Threads :
          /\ threads[t].pc = "skill"
          /\ LET skill == TARGET_LABELS[threads[t].i]
                 file  == disk[model_path[skill]]
             IN  threads' = [ threads EXCEPT ![t] =
                    IF file.st \in { "absent", "partial" }
                    THEN Leaves(threads[t], "none", Fallback("Models not loaded"))
                    ELSE [ threads[t] EXCEPT !.pc = "store",
                                             !.local = pickle_load(skill, file) ] ]
    /\ UNCHANGED << disk, trainer, phase, MODELS, FEATURE_IMPORTANCE, FEEDBACK_MAPPING,
                    MODELS_LOADED, call, ret, first >>

(* _MODELS[skill] = the model the thread has unpickled.                    *)
StoreSkill ==
    /\ \E t \in Threads :
          /\ threads[t].pc = "store"
          /\ MODELS' = (TARGET_LABELS[threads[t].i] :> threads[t].local) @@ MODELS
          /\ threads' = [ threads EXCEPT
                ![t].pc = IF threads[t].i = Len(TARGET_LABELS) THEN "importance" ELSE "skill",
                ![t].i = threads[t].i + 1,
                ![t].local = << >> ]
    /\ UNCHANGED << disk, trainer, phase, FEATURE_IMPORTANCE, FEEDBACK_MAPPING,
                    MODELS_LOADED, call, ret, first >>

(* A JSON table is tested and read: the thread goes on to next when the    *)
(* file is missing, holds the table in local and goes on to store when it  *)
(* has read it, and returns False when json.load raises.                   *)
TableRead(th, file, store, next) ==
    IF file.st = "absent" THEN [ th EXCEPT !.pc = next ]
    ELSE IF file.st = "partial" THEN Leaves(th, "none", Fallback("Models not loaded"))
    ELSE [ th EXCEPT !.pc = store, !.local = file.run ]

(* feature_importance.json up to the value of json.load(f).                *)
ReadImportance ==
    /\ \E t \in Threads :
          /\ threads[t].pc = "importance"
          /\ threads' = [ threads EXCEPT ![t] =
                TableRead(threads[t], disk["feature_importance.json"],
                          "store_importance", "feedback_mapping") ]
    /\ UNCHANGED << disk, trainer, phase, MODELS, FEATURE_IMPORTANCE, FEEDBACK_MAPPING,
                    MODELS_LOADED, call, ret, first >>

(* _FEATURE_IMPORTANCE = the table read.                                   *)
StoreImportance ==
    /\ \E t \in Threads :
          /\ threads[t].pc = "store_importance"
          /\ FEATURE_IMPORTANCE' = threads[t].local
          /\ threads' = [ threads EXCEPT ![t].pc = "feedback_mapping", ![t].local = << >> ]
    /\ UNCHANGED << disk, trainer, phase, MODELS, FEEDBACK_MAPPING, MODELS_LOADED,
                    call, ret, first >>

(* feedback_mapping.json up to the value of json.load(f).                  *)
ReadFeedback ==
    /\ \E t \in Threads :
          /\ threads[t].pc = "feedback_mapping"
          /\ threads' = [ threads EXCEPT ![t] =
                TableRead(threads[t], disk["feedback_mapping.json"],
                          "store_feedback", "loaded") ]
    /\ UNCHANGED << disk, trainer, phase, MODELS, FEATURE_IMPORTANCE, FEEDBACK_MAPPING,
                    MODELS_LOADED, call, ret, first >>

(* _FEEDBACK_MAPPING = the table read.                                     *)
StoreFeedback ==
    /\ \E t \in Threads :
          /\ threads[t].pc = "store_feedback"
          /\ FEEDBACK_MAPPING' = threads[t].local
          /\ threads' = [ threads EXCEPT ![t].pc = "loaded", ![t].local = << >> ]
    /\ UNCHANGED << disk, trainer, phase, MODELS, FEATURE_IMPORTANCE, MODELS_LOADED,
                    call, ret, first >>

(* _MODELS_LOADED = True; return True, and score_session goes on.          *)
SetLoaded ==
    /\ \E t \in Threads :
          /\ threads[t].pc = "loaded"
          /\ MODELS_LOADED' = TRUE
          /\ threads' = [ threads EXCEPT ![t].pc = "build" ]
    /\ UNCHANGED << disk, trainer, phase, MODELS, FEATURE_IMPORTANCE, FEEDBACK_MAPPING,
                    call, ret, first >>

(* build_feature_vector and validate_feature_vector; seen records the      *)
(* models the registry holds when the prediction loop starts.              *)
Vectored(t, built) ==
    threads' = [ threads EXCEPT ![t] =
                   IF built.exc # "none" THEN Leaves(threads[t], built.exc, << >>)
                   ELSE IF ~validate_feature_vector(built.vector)
                   THEN Leaves(threads[t], "none", Fallback("Invalid feature vector"))
                   ELSE [ threads[t] EXCEPT !.pc = "predict", !.i = 1, !.X = built.vector,
                                            !.video = built.video_available,
                                            !.seen = MODELS ] ]

Build ==
    /\ \E t \in Threads :
          /\ threads[t].pc = "build"
          /\ Vectored(t, build_feature_vector(threads[t].features))
    /\ UNCHANGED << disk, trainer, phase, MODELS, FEATURE_IMPORTANCE, FEEDBACK_MAPPING,
                    MODELS_LOADED, call, ret, first >>

(* One turn of the prediction loop.                                        *)
Predict ==
    /\ \E t \in Threads :
          /\ threads[t].pc = "predict"
          /\ LET skill == TARGET_LABELS[threads[t].i]
             IN  threads' = [ threads EXCEPT
                    ![t].scores = (skill :> Scores(MODELS, threads[t].X)[skill]) @@ @,
                    ![t].pc = IF threads[t].i = Len(TARGET_LABELS) THEN "feedback" ELSE "predict",
                    ![t].i = threads[t].i + 1 ]
    /\ UNCHANGED << disk, trainer, phase, MODELS, FEATURE_IMPORTANCE, FEEDBACK_MAPPING,
                    MODELS_LOADED, call, ret, first >>

(* overall, the feedback and the result dict.                              *)
Resulted(t, r) ==
    threads' = [ threads EXCEPT ![t] = Leaves(threads[t], r.exc, r.result) ]

Feedback ==
    /\ \E t \in Threads :
          /\ threads[t].pc = "feedback"
          /\ Resulted(t, ScorePredicted(Reg, threads[t].features,
                                        [ video_available |-> threads[t].video ],
                                        threads[t].scores))
    /\ UNCHANGED << disk, trainer, phase, MODELS, FEATURE_IMPORTANCE, FEEDBACK_MAPPING,
                    MODELS_LOADED, call, ret, first >>

(* The caller has the result.                                              *)
Return ==
    /\ \E t \in Threads :
          /\ threads[t].pc = "done"
          /\ threads' = [ threads EXCEPT ![t] = IdleThread ]
    /\ UNCHANGED << disk, trainer, phase, MODELS, FEATURE_IMPORTANCE, FEEDBACK_MAPPING,
                    MODELS_LOADED, call, ret, first >>

NextConcurrent ==
    \/ StartRun
    \/ SaveOpen
    \/ SaveDump
    \/ Begin
    \/ CheckLoaded
    \/ EnterLoad
    \/ ReadSkill
    \/ StoreSkill
    \/ ReadImportance
    \/ StoreImportance
    \/ ReadFeedback
    \/ StoreFeedback
    \/ SetLoaded
    \/ Build
    \/ Predict
    \/ Feedback
    \/ Return

SpecConcurrent == InitConcurrent /\ [][NextConcurrent]_vars

(* C14: under any interleaving of concurrent score_session calls no call   *)
(* runs inference against a registry holding fewer than the four models,   *)
(* and every call returns the complete fallback or the scores computed     *)
(* from the four models it found when its inference began, as it would if  *)
(* run alone.  _load_models run by another call replaces models in place   *)
(* while the prediction loop reads them: violated.                         *)
C14_NoHalfDoneState ==
    \A t \in Threads :
        /\ threads[t].pc = "predict" => DOMAIN MODELS = SkillNames
        /\ (threads[t].pc = "done" /\ threads[t].exc = "none") =>
              \/ \E error \in { "Models not loaded", "Invalid feature vector" } :
                    threads[t].result = Fallback(error)
              \/ \A skill \in SkillNames :
                    threads[t].result[skill] = Scores(threads[t].seen, threads[t].X)[skill]

-----------------------------------------------------------------------------
(* The service started on model files of which some were trained under an  *)
(* earlier version of the feature contract.                                *)

SchemaDeployments ==
    { [ f \in Files |-> IF f \in SideFiles THEN (IF tables THEN File("ok", 0) ELSE Absent)
                        ELSE IF f \in stale THEN File("stale", 0) ELSE File("ok", 0) ] :
      stale \in SUBSET ModelFiles, tables \in BOOLEAN }

InitSchema ==
    /\ disk \in SchemaDeployments
    /\ trainer = [ run |-> 0, step |-> 0 ]
    /\ phase = "boot"
    /\ MODELS = EmptyRegistry.MODELS
    /\ FEATURE_IMPORTANCE = EmptyRegistry.FEATURE_IMPORTANCE
    /\ FEEDBACK_MAPPING = EmptyRegistry.FEEDBACK_MAPPING
    /\ MODELS_LOADED = EmptyRegistry.MODELS_LOADED
    /\ call = Idle
    /\ ret = NoReturn
    /\ first = NotYet
    /\ threads = << >>

NextSchema ==
    \/ Import
    \/ LoadFile
    \/ Score
    \/ Health
    \/ Respond

SpecSchema == InitSchema /\ [][NextSchema]_vars

(* C15: when a model file disagrees with the feature contract on the       *)
(* feature count, the startup load fails, and no score_session call is the *)
(* first to meet the disagreement as an error of its own.  _load_models    *)
(* compares nothing with the contract: the load succeeds, the service      *)
(* reports healthy and predict raises in every request: violated.          *)
C15_MismatchFailsStartup ==
    /\ (call.op = "import" /\ \E f \in ModelFiles : disk[f].st = "stale") => ~ret.ret
    /\ call.op = "score" => ret.exc # "ValueError"

-----------------------------------------------------------------------------
(* The value the contract gives feature f for the raw mapping: the default *)
(* (0.0 for a video feature while no video feature is present) when the    *)
(* raw value is unusable, else the raw number brought into [min_f, max_f]. *)
ImputedOrClipped(raw, f) ==
    LET meta == FEATURE_METADATA[f]
    IN  IF Unusable(raw, f)
        THEN (IF f \in VideoNames /\ ~(\E v \in VideoNames : Present(raw, v))
              THEN 0 ELSE meta.default)
        ELSE IF Number(raw[f]) < meta.min THEN meta.min
        ELSE IF Number(raw[f]) > meta.max THEN meta.max
        ELSE Number(raw[f])

(* C16: ALL_FEATURES is 48 pairwise-distinct names, 27 text, then 14       *)
(* audio, then 7 video; every name has one FEATURE_METADATA entry and      *)
(* FEATURE_INDEX gives its position; element i of the built vector is the  *)
(* imputed or clipped value of the feature named ALL_FEATURES[i].          *)
C16_VectorOrder ==
    /\ Len(ALL_FEATURES) = 48 /\ N_FEATURES = 48
    /\ Len(TEXT_FEATURES) = 27 /\ Len(AUDIO_FEATURES) = 14 /\ Len(VIDEO_FEATURES) = 7
    /\ \A i \in 1..27 : ALL_FEATURES[i] = TEXT_FEATURES[i]
    /\ \A i \in 1..14 : ALL_FEATURES[27 + i] = AUDIO_FEATURES[i]
    /\ \A i \in 1..7 : ALL_FEATURES[41 + i] = VIDEO_FEATURES[i]
    /\ \A i, j \in 1..48 : ALL_FEATURES[i] = ALL_FEATURES[j] => i = j
    /\ DOMAIN FEATURE_METADATA = FeatureNames
    /\ \A i \in 1..48 : FEATURE_INDEX[ALL_FEATURES[i]] = i
    /\ Built =>
          /\ Len(ret.vector) = 48
          /\ \A i \in 1..48 :
                ret.vector[i] = F32(ImputedOrClipped(call.features, ALL_FEATURES[i]))

(* silence_ratio, the 32nd name, is the only feature above its range: its  *)
(* clipped value is at position 32 and not at the positions next to it.    *)
C16_Witness ==
    /\ Built
    /\ ALL_FEATURES[32] = "silence_ratio"
    /\ "silence_ratio" \in DOMAIN call.features
    /\ call.features["silence_ratio"] = PyVal("float", 500)
    /\ ret.vector[32] = F32(100)
    /\ ret.vector[31] # F32(100)
    /\ ret.vector[33] # F32(100)

(* C17: in imputation a missing key, None, a non-numeric string, a         *)
(* boolean, NaN, +Infinity and -Infinity (and any other value float()      *)
(* rejects) are invalid and replaced by the imputed value; every other     *)
(* value is used, clipped.  The code has no test for booleans and          *)
(* float(True) is 1.0, so a boolean is used as a number: violated.         *)
C17_InvalidValues ==
    Built =>
        \A f \in FeatureNames :
            LET raw     == call.features
                meta    == FEATURE_METADATA[f]
                invalid == \/ f \notin DOMAIN raw
                           \/ raw[f].t \in { "none", "str", "bool", "nan", "inf", "ninf", "list" }
                imputed == IF f \in VideoNames /\ ret.video_available = 0
                           THEN 0 ELSE meta.default
            IN  /\ invalid => Element(f) = F32(imputed)
                /\ ~invalid => Element(f) = F32(ImputedOrClipped(raw, f))

-----------------------------------------------------------------------------
(* score_session on a loaded service, applied to raw mappings that put the *)
(* features of bad_thresholds at, next to and far from their thresholds.   *)

(* The rule keys overridden one by one: the first and the last rule, a     *)
(* high and a low rule of the schema, of the video features, and of the    *)
(* keys that are no schema names.                                          *)
RuleProbeKeys ==
    { "silence_ratio", "gaze_variance", "emotion_mismatch_score",
      "semantic_relevance_mean", "eye_contact_ratio", "emotion_consistency" }

(* The values tried for the feature of a rule.                             *)
FeedbackValues(rule) ==
    { PyNone, PyVal("nan", 0), PyVal("inf", 0), PyVal("ninf", 0), PyVal("str", 0),
      PyVal("list", 0), PyVal("bool", 1), PyVal("int", 0),
      PyVal("numstr", rule.threshold + 1),
      PyVal("float", rule.threshold - 1), PyVal("float", rule.threshold),
      PyVal("float", rule.threshold + 1), PyVal("float", 500), PyVal("float", 0 - 250) }

(* Mappings over the rule keys (none, all at the threshold, all one        *)
(* hundredth on the bad side, all 0.0, all 1.0) with at most MaxOverrides  *)
(* entries replaced.                                                       *)
FeedbackInputs ==
    LET rules   == Range(bad_thresholds)
        side(r) == IF r.direction = "high" THEN 1 ELSE 0 - 1
        bases   == { << >>,
                     [ k \in { r.feat : r \in rules } |->
                         PyVal("float", (CHOOSE r \in rules : r.feat = k).threshold) ],
                     [ k \in { r.feat : r \in rules } |->
                         PyVal("float", (CHOOSE r \in rules : r.feat = k).threshold
                                        + side(CHOOSE r \in rules : r.feat = k)) ],
                     [ k \in { r.feat : r \in rules } |-> PyVal("float", 0) ],
                     [ k \in { r.feat : r \in rules } |-> PyVal("float", 100) ] }
        values  == UNION { FeedbackValues(r) : r \in rules }
        ovs     == UNION { { ov \in [ D -> values ] :
                               \A k \in D :
                                   ov[k] \in FeedbackValues(CHOOSE r \in rules : r.feat = k) } :
                           D \in { S \in SUBSET RuleProbeKeys : Cardinality(S) <= MaxOverrides } }
    IN  { Override(base, ov) : base \in bases, ov \in ovs }

InitFeedback ==
    /\ disk = [ f \in Files |-> File("ok", 0) ]
    /\ trainer = [ run |-> 0, step |-> 0 ]
    /\ phase = "serving"
    /\ MODELS = load_models(EmptyRegistry, disk).reg.MODELS
    /\ FEATURE_IMPORTANCE = load_models(EmptyRegistry, disk).reg.FEATURE_IMPORTANCE
    /\ FEEDBACK_MAPPING = load_models(EmptyRegistry, disk).reg.FEEDBACK_MAPPING
    /\ MODELS_LOADED = load_models(EmptyRegistry, disk).reg.MODELS_LOADED
    /\ call = Idle
    /\ ret = NoReturn
    /\ first = NotYet
    /\ threads = << >>

ScoreFeedback ==
    /\ phase = "serving"
    /\ call.op = "idle"
    /\ ScoreCalled(FeedbackInputs)

NextFeedback ==
    \/ ScoreFeedback
    \/ Respond

SpecFeedback == InitFeedback /\ [][NextFeedback]_vars

(* The positions of bad_thresholds flagged before position i.              *)
FlaggedBefore(features, i) == { j \in FlaggedRules(features) : j < i }

(* C18: a rule feature with a finite numeric raw value v is in             *)
(* low_features only if v is strictly on the bad side of the threshold     *)
(* (above it for a high rule, below it for a low rule), and is there       *)
(* whenever v is and fewer than five rules before it are flagged; a raw    *)
(* value equal to the threshold is never flagged, and it is the raw value  *)
(* that is compared, also when it lies outside the feature's range.        *)
C18_StrictThreshold ==
    Scored =>
        \A i \in 1..Len(bad_thresholds) :
            LET rule == bad_thresholds[i]
                raw  == call.features
                low  == Range(ret.result["low_features"])
            IN  (rule.feat \in DOMAIN raw /\ raw[rule.feat].t \in { "float", "int" }) =>
                    /\ rule.feat \in low => Crosses(rule, Number(raw[rule.feat]))
                    /\ (/\ Crosses(rule, Number(raw[rule.feat]))
                        /\ Cardinality(FlaggedBefore(raw, i)) < 5) => rule.feat \in low
                    /\ Number(raw[rule.feat]) = rule.threshold => rule.feat \notin low

(* silence_ratio is one hundredth above its threshold and flagged, the     *)
(* other thirteen features are at their thresholds and not flagged.        *)
C18_Witness ==
    /\ Scored
    /\ DOMAIN call.features = { bad_thresholds[i].feat : i \in 1..Len(bad_thresholds) }
    /\ call.features["silence_ratio"] = PyVal("float", 31)
    /\ \A i \in 2..Len(bad_thresholds) :
          call.features[bad_thresholds[i].feat] = PyVal("float", bad_thresholds[i].threshold)
    /\ ret.result["low_features"] = << "silence_ratio" >>

(* C19: a rule feature whose raw value is missing, None, non-numeric, NaN  *)
(* or infinite is never in low_features, even when the value imputation    *)
(* puts in the vector for it crosses the threshold; score_session does not *)
(* raise on such values, and score_session({}) has empty low_features.     *)
C19_UnusableSkipped ==
    call.op = "score" =>
        /\ ret.exc = "none"
        /\ \A i \in 1..Len(bad_thresholds) :
              Unusable(call.features, bad_thresholds[i].feat) =>
                  bad_thresholds[i].feat \notin Range(ret.result["low_features"])
        /\ call.features = << >> => ret.result["low_features"] = << >>

(* eye_contact_ratio is None and no video feature is present: the vector   *)
(* holds 0.0 for it, below the threshold 0.4, and it is not flagged.       *)
C19_Witness ==
    /\ Scored
    /\ "eye_contact_ratio" \in DOMAIN call.features
    /\ call.features["eye_contact_ratio"] = PyNone
    /\ build_feature_vector(call.features).video_available = 0
    /\ build_feature_vector(call.features).vector[FEATURE_INDEX["eye_contact_ratio"]] = F32(0)
    /\ \E i \in 1..Len(bad_thresholds) :
          /\ bad_thresholds[i] = Rule("eye_contact_ratio", "low", 40)
          /\ Crosses(bad_thresholds[i], 0)
    /\ ret.result["low_features"] = << >>

(* C20: low_features is the first (at most five) flagged names in the      *)
(* order of the rule table (silence_ratio, topic_drift_ratio, hedge_ratio, *)
(* filler_word_ratio, audio_nervous_prob, monotony_score, gaze_variance,   *)
(* emotion_mismatch_score, semantic_relevance_mean,                        *)
(* assertive_phrase_ratio, empathy_phrase_ratio, eye_contact_ratio,        *)
(* audio_confidence_prob, emotion_consistency) and holds no name twice.    *)
C20_TableOrder ==
    /\ [ i \in 1..Len(bad_thresholds) |-> bad_thresholds[i].feat ] =
          << "silence_ratio", "topic_drift_ratio", "hedge_ratio", "filler_word_ratio",
             "audio_nervous_prob", "monotony_score", "gaze_variance",
             "emotion_mismatch_score", "semantic_relevance_mean",
             "assertive_phrase_ratio", "empathy_phrase_ratio", "eye_contact_ratio",
             "audio_confidence_prob", "emotion_consistency" >>
    /\ Scored =>
          LET raw == call.features
              low == ret.result["low_features"]
              n   == Cardinality(FlaggedRules(raw))
          IN  /\ Len(low) = IF n < 5 THEN n ELSE 5
              /\ \A p \in 1..Len(low) :
                    \E i \in FlaggedRules(raw) :
                        /\ bad_thresholds[i].feat = low[p]
                        /\ Cardinality(FlaggedBefore(raw, i)) = p - 1
              /\ \A p, q \in 1..Len(low) : low[p] = low[q] => p = q

(* Thirteen rules are flagged, the first is not: the list is the second to *)
(* the sixth name of the table.                                            *)
C20_Witness ==
    /\ Scored
    /\ Cardinality(FlaggedRules(call.features)) = 13
    /\ 1 \notin FlaggedRules(call.features)
    /\ ret.result["low_features"] =
          << "topic_drift_ratio", "hedge_ratio", "filler_word_ratio",
             "audio_nervous_prob", "monotony_score" >>

-----------------------------------------------------------------------------
(* The skill-level suggestions of _generate_suggestions, by skill.         *)
GenericSuggestion ==
    "confidence" :> "Focus on projecting confidence through body language and voice" @@
    "clarity" :> "Structure your responses with clear beginnings, middles, and ends" @@
    "empathy" :> "Show more engagement and understanding of the interviewer's perspective"

(* The suggestions of the result and the number of them that stand before  *)
(* the skill-level suggestion of TARGET_LABELS[k]: the feature suggestions *)
(* and the suggestions of the earlier skills with a score below 50.        *)
Suggestions == ret.result["improvement_suggestions"]

Preceding(k) ==
    Cardinality({ i \in 1..Len(ret.result["low_features"]) :
                    ret.result["low_features"][i] \in DOMAIN feature_suggestions })
    + Cardinality({ j \in 1..(k - 1) : ret.result[TARGET_LABELS[j]] < 50 })

(* C21: for each of the four skills, when its score is below 50 and fewer  *)
(* than five suggestions precede it, improvement_suggestions holds a       *)
(* skill-level suggestion for that skill; when no score is below 50 none   *)
(* is appended.  The code has suggestions for confidence, clarity and      *)
(* empathy only, none for communication: violated.                         *)
C21_GenericSuggestions ==
    Scored =>
        /\ \A k \in 1..Len(TARGET_LABELS) :
              (ret.result[TARGET_LABELS[k]] < 50 /\ Preceding(k) < 5) =>
                  /\ TARGET_LABELS[k] \in DOMAIN GenericSuggestion
                  /\ GenericSuggestion[TARGET_LABELS[k]] \in Range(Suggestions)
        /\ (\A skill \in SkillNames : ret.result[skill] >= 50) =>
              Range(Suggestions) \cap { GenericSuggestion[s] : s \in DOMAIN GenericSuggestion } = {}

(* The suggestions of the flagged features that have one, in the order of  *)
(* low_features, then those of the skills below 50.                        *)
SuggestionsInOrder ==
    LET low   == ret.result["low_features"]
        known == SelectSeq(low, LAMBDA f : f \in DOMAIN feature_suggestions)
        below == SelectSeq(TARGET_LABELS,
                           LAMBDA s : s \in DOMAIN GenericSuggestion /\ ret.result[s] < 50)
    IN  [ i \in 1..Len(known) |-> feature_suggestions[known[i]] ] \o
        [ i \in 1..Len(below) |-> GenericSuggestion[below[i]] ]

(* C22: improvement_suggestions holds no string twice and keeps the        *)
(* first-seen order: the feature suggestions in the order of low_features, *)
(* then the skill-level ones, cut to the first five, so that the           *)
(* skill-level ones are those dropped.                                     *)
C22_SuggestionOrder ==
    Scored =>
        /\ \A p, q \in 1..Len(Suggestions) : Suggestions[p] = Suggestions[q] => p = q
        /\ \A p, q \in 1..Len(SuggestionsInOrder) :
              SuggestionsInOrder[p] = SuggestionsInOrder[q] => p = q
        /\ Len(Suggestions) = IF Len(SuggestionsInOrder) < 5 THEN Len(SuggestionsInOrder) ELSE 5
        /\ \A p \in 1..Len(Suggestions) : Suggestions[p] = SuggestionsInOrder[p]

(* Five flagged features have a suggestion and a score is below 50: the    *)
(* five feature suggestions are returned and the skill-level one dropped.  *)
C22_Witness ==
    /\ Scored
    /\ ret.result["confidence"] < 50
    /\ Len(ret.result["low_features"]) = 5
    /\ Len(SuggestionsInOrder) > 5
    /\ Suggestions = [ i \in 1..5 |-> feature_suggestions[ret.result["low_features"][i]] ]
    /\ GenericSuggestion["confidence"] \notin Range(Suggestions)

(* C23: every name in low_features of a result has an entry in the         *)
(* feature-to-suggestion table and its suggestion is in                    *)
(* improvement_suggestions of the same result.  gaze_variance and          *)
(* emotion_mismatch_score are rules of bad_thresholds without an entry in  *)
(* feature_suggestions: violated.                                          *)
C23_FlaggedHasSuggestion ==
    Scored =>
        \A f \in Range(ret.result["low_features"]) :
            /\ f \in DOMAIN feature_suggestions
            /\ feature_suggestions[f] \in Range(Suggestions)

(* C24: for every raw mapping the vector build_feature_vector returns      *)
(* passes validate_feature_vector (length N, no NaN, no Infinity), so      *)
(* score_session never meets an invalid vector.  A NaN or an infinity of   *)
(* the raw mapping would pass np.clip and the float32 cast into the        *)
(* vector; the validity test of impute_missing_features keeps it out.      *)
C24_VectorAlwaysValid ==
    Built =>
        /\ validate_feature_vector(ret.vector)
        /\ Len(ret.vector) = N_FEATURES
        /\ \A i \in 1..Len(ret.vector) : ret.vector[i].k = "fin"

(* The raw mapping carries a NaN: the vector built from it is valid and    *)
(* holds the default at its place.                                         *)
C24_Witness ==
    /\ Built
    /\ "silence_ratio" \in DOMAIN call.features
    /\ call.features["silence_ratio"].t = "nan"
    /\ validate_feature_vector(ret.vector)
    /\ Element("silence_ratio") = F32(FEATURE_METADATA["silence_ratio"].default)

(* The states the two JSON tables can be found in: missing, written by an  *)
(* earlier or a later run, truncated.                                      *)
SideStates == { Absent, File("ok", 0), File("ok", MaxRuns), File("partial", MaxRuns) }

(* C25: the result of score_session is the same in any process state that  *)
(* differs from the one it ran in only by the presence, readability or     *)
(* contents of feature_importance.json and feedback_mapping.json and of    *)
(* the tables loaded from them: the call would return the same had it met  *)
(* the model files as it did and the tables in any other state.  A table   *)
(* file json.load fails on makes                                           *)
(* _load_models return False and score_session return the fallback:        *)
(* violated.                                                               *)
C25_TablesIrrelevant ==
    call.op = "score" =>
        \A importance, feedback \in SideStates, x, y \in 0..MaxRuns :
            LET other == score_session(
                             [ call.before EXCEPT !.FEATURE_IMPORTANCE = x,
                                                  !.FEEDBACK_MAPPING = y ],
                             [ SoFar(call.seen) EXCEPT
                                   !["feature_importance.json"] = importance,
                                   !["feedback_mapping.json"] = feedback ],
                             call.features)
            IN  other.exc = ret.exc /\ other.result = ret.result

(* C26: when the four model files are present and load, a load attempt     *)
(* leaves the service ready whether feature_importance.json and            *)
(* feedback_mapping.json are present, absent or unreadable; only a missing *)
(* or unloadable model file leaves it degraded.  json.load of an           *)
(* unreadable table raises inside the try block of _load_models, which     *)
(* returns False before setting _MODELS_LOADED: violated.                  *)
C26_SideArtifactsOptional ==
    (/\ call.op \in { "import", "score", "model_info" }
     /\ \A f \in ModelFiles : Found(f, "ok")) => MODELS_LOADED

(* C27: _identify_low_features flags features only on behalf of skills     *)
(* with a low score (< 60), as its docstring states: when the four scores  *)
(* are all 60 or higher low_features is empty whatever the raw values are. *)
(* The function never reads its scores argument: violated.                 *)
C27_FlagsOnlyForLowSkills ==
    (Scored /\ \A skill \in SkillNames : ret.result[skill] >= 60) =>
        ret.result["low_features"] = << >>

(* C28: in every reachable state, after any sequence of load attempts and  *)
(* scoring calls, _MODELS_LOADED implies that _MODELS holds a model for    *)
(* each of the four skills, so a result with scores was computed with the  *)
(* four models and never with the default 50 of a missing one.             *)
C28_LoadedMeansFourModels ==
    /\ MODELS_LOADED => DOMAIN MODELS = SkillNames
    /\ (Scored /\ "error" \notin DOMAIN ret.result) =>
          /\ DOMAIN MODELS = SkillNames
          /\ \A skill \in SkillNames : ret.result[skill] = SkillScore(Prediction(skill))

(* A load attempt had stored some of the models and failed; the retry of   *)
(* this score call completed the registry and the call returned scores.    *)
C28_Witness ==
    /\ Scored
    /\ "error" \notin DOMAIN ret.result
    /\ ~call.before.MODELS_LOADED
    /\ DOMAIN call.before.MODELS # {}
    /\ DOMAIN call.before.MODELS # SkillNames
    /\ MODELS_LOADED
    /\ DOMAIN MODELS = SkillNames

(* A directory on which every load attempt would fail.                     *)
Unreadable == [ f \in Files |-> File("partial", MaxRuns) ]

(* C29: _MODELS_LOADED, once true, is never set back to false; a call made *)
(* while it is true leaves _MODELS and the two tables as they were and     *)
(* reads no artifact for its load (score_session returns what it would     *)
(* with every file unreadable); a score_session or get_model_info call     *)
(* made while it is false runs a fresh load attempt, from the first model  *)
(* file on, on the files as they are when it comes to them.                *)
C29_ReadinessMonotone ==
    /\ [][MODELS_LOADED => MODELS_LOADED']_vars
    /\ []((call.op \in { "score", "model_info", "health" } /\ call.before.MODELS_LOADED) =>
              /\ Reg = call.before
              /\ \A f \in Range(LoadOrder) : f \notin DOMAIN call.seen
              /\ call.op = "score" =>
                    /\ ret.exc = score_session(call.before, Unreadable, call.features).exc
                    /\ ret.result = score_session(call.before, Unreadable, call.features).result)
    /\ []((call.op \in { "score", "model_info" } /\ ~call.before.MODELS_LOADED) =>
              /\ LoadOrder[1] \in DOMAIN call.seen
              /\ Reg = Loaded(call.before, SoFar(call.seen),
                              LoadSkills(call.before.MODELS, SoFar(call.seen), 1)).reg
              /\ (\A f \in Range(LoadOrder) : Found(f, "ok")) => MODELS_LOADED
              /\ (\E f \in ModelFiles : ~Found(f, "ok")) => ~MODELS_LOADED)

(* A score call on a ready service after save_artifacts has rewritten a    *)
(* model file: the registry is as it was.                                  *)
C29_Witness ==
    /\ Scored
    /\ call.before.MODELS_LOADED
    /\ \E skill \in SkillNames :
          /\ disk[model_path[skill]].st = "ok"
          /\ MODELS[skill] # TrainedModel(skill, disk[model_path[skill]].run)
    /\ Reg = call.before

(* C30: the element of the built vector at the position of the feature     *)
(* video_available is 1.0 exactly when the flag returned with the vector   *)
(* is 1, and 0.0 exactly when the flag is 0.  The element is imputed like  *)
(* any other feature, from the raw key video_available or its default 0.0, *)
(* and never from the flag: violated.                                      *)
C30_FlagElementAgrees ==
    Built =>
        /\ Element("video_available") = F32(100) <=> ret.video_available = 1
        /\ Element("video_available") = F32(0) <=> ret.video_available = 0
====
